---------------------------- MODULE Spec2Model ----------------------------
(***************************************************************************)
(* A model of the organizer scripts: the directory walk of shared_utils    *)
(* and length, and the scan loops of pageCounter, comanga, seriesLength    *)
(* and length with their reports.                                          *)
(*                                                                         *)
(* One run of the model is one run of one script (prog) on one directory   *)
(* tree (fs).  The tree has a fixed shape; the names of its entries, the   *)
(* state of its files and the directories that cannot be listed are drawn  *)
(* at Init.  The calls to the logging module have no effect on the state   *)
(* modelled here and are left out.                                         *)
(***************************************************************************)
EXTENDS Integers, Sequences, FiniteSets, TLC

VARIABLES
    prog,          \* the script that runs
    pc,            \* its position
    fs,            \* the directory tree it runs on
    pageCounter,   \* the locals of pageCounter.py
    comanga,       \* the locals of comanga.py
    seriesLength,  \* the locals of seriesLength.py
    length,        \* the locals of length.py
    call,          \* a call of one of the formatting functions
    steam          \* the locals of steamSorter.py

\* The variables the four scanning scripts leave alone.
others == <<call, steam>>

vars == <<prog, pc, fs, pageCounter, comanga, seriesLength, length, call, steam>>

(***************************************************************************)
(* The directory tree.                                                     *)
(*                                                                         *)
(*   0 root/          1 root/a.*      2 root/b.*                           *)
(*   3 root/D/        4 root/D/c.*                                         *)
(*   5 root/D/E/      6 root/D/E/f.*                                       *)
(*   7 root/G/        8 root/G/h.*                                         *)
(*                                                                         *)
(* A directory lists its entries in the order of their numbers.  The       *)
(* directories 5 and 7 may be absent, with all they hold.                  *)
(***************************************************************************)
Root == 0
Dirs == {0, 3, 5, 7}
Files == {1, 2, 4, 6, 8}
Nodes == Dirs \cup Files

Parent(n) == CASE n \in {1, 2, 3, 7} -> 0
               [] n \in {4, 5} -> 3
               [] n = 6 -> 5
               [] n = 8 -> 7

\* The most irregularities (odd names, broken files, absent or unlistable
\* directories) a tree holds.
MaxFaults == 2

\* What the counter of a file returns when it succeeds: pages, or seconds.
Units(f) == CASE f = 1 -> 3 [] f = 2 -> 5 [] f = 4 -> 2 [] f = 6 -> 1 [] f = 8 -> 4

(***************************************************************************)
(* Names are sequences of characters, so that the suffix of a name and its *)
(* lower-casing are computed as pathlib and str.lower compute them.        *)
(***************************************************************************)
Capitals == <<"A", "B", "C", "D", "E", "F", "G", "H", "I", "J", "K", "L", "M",
              "N", "O", "P", "Q", "R", "S", "T", "U", "V", "W", "X", "Y", "Z">>
Smalls   == <<"a", "b", "c", "d", "e", "f", "g", "h", "i", "j", "k", "l", "m",
              "n", "o", "p", "q", "r", "s", "t", "u", "v", "w", "x", "y", "z">>

\* str.lower on one character.
LowerChar(c) ==
    IF \E i \in 1..Len(Capitals) : Capitals[i] = c
    THEN Smalls[CHOOSE i \in 1..Len(Capitals) : Capitals[i] = c]
    ELSE c

\* str.lower.
Lower(s) == [k \in 1..Len(s) |-> LowerChar(s[k])]

\* str.upper on one character; used to build the tree's names only.
UpperChar(c) ==
    IF \E i \in 1..Len(Smalls) : Smalls[i] = c
    THEN Capitals[CHOOSE i \in 1..Len(Smalls) : Smalls[i] = c]
    ELSE c

Upper(s) == [k \in 1..Len(s) |-> UpperChar(s[k])]

\* str.rfind('.'), counted from 1; 0 when the name holds no dot.
LastDot(name) ==
    IF \E k \in 1..Len(name) : name[k] = "."
    THEN CHOOSE k \in 1..Len(name) :
             name[k] = "." /\ \A j \in (k + 1)..Len(name) : name[j] # "."
    ELSE 0

\* pathlib's PurePath.suffix: the name from its last dot on, unless that dot
\* starts or ends the name.
Suffix(name) ==
    LET i == LastDot(name)
    IN  IF 1 < i /\ i < Len(name) THEN SubSeq(name, i, Len(name)) ELSE <<>>

pdf  == <<".", "p", "d", "f">>
epub == <<".", "e", "p", "u", "b">>
docx == <<".", "d", "o", "c", "x">>
cbz  == <<".", "c", "b", "z">>
cbr  == <<".", "c", "b", "r">>
mp4  == <<".", "m", "p", "4">>
avi  == <<".", "a", "v", "i">>
mkv  == <<".", "m", "k", "v">>
mov  == <<".", "m", "o", "v">>
wmv  == <<".", "w", "m", "v">>
flv  == <<".", "f", "l", "v">>
webm == <<".", "w", "e", "b", "m">>
txt  == <<".", "t", "x", "t">>

\* Directory names.
Sub         == <<"S", "u", "b">>
Subs        == <<"S", "u", "b", "s">>
Subtitles   == <<"S", "u", "b", "t", "i", "t", "l", "e", "s">>
Featurettes == <<"F", "e", "a", "t", "u", "r", "e", "t", "t", "e", "s">>
Extras      == <<"E", "x", "t", "r", "a", "s">>
library     == <<"l", "i", "b", "r", "a", "r", "y">>
seriesX     == <<"s", "e", "r", "i", "e", "s", "X">>
seriesY     == <<"s", "e", "r", "i", "e", "s", "Y">>
Season1     == <<"S", "e", "a", "s", "o", "n", "1">>

Programs == {"pageCounter", "comanga", "seriesLength", "length"}

(***************************************************************************)
(* The trees a run is given.  A regular tree names its files with a lower- *)
(* case suffix the script supports and holds sound files and listable      *)
(* directories; a tree of the model is a regular tree with at most         *)
(* MaxFaults faults.                                                       *)
(***************************************************************************)
Stem(f) == CASE f = 1 -> <<"a">> [] f = 2 -> <<"b">> [] f = 4 -> <<"c">>
             [] f = 6 -> <<"f">> [] f = 8 -> <<"h">>

BaseSuffix(p, f) ==
    CASE p = "pageCounter" ->
             (CASE f \in {1, 6} -> pdf [] f \in {2, 8} -> epub [] f = 4 -> docx)
      [] p = "comanga" ->
             (CASE f \in {1, 4} -> cbz [] f = 2 -> cbr [] f = 6 -> pdf [] f = 8 -> epub)
      [] OTHER ->
             (CASE f \in {1, 4} -> mp4 [] f = 2 -> mkv [] f = 6 -> avi [] f = 8 -> webm)

BaseDirName(d) == CASE d = 0 -> library [] d = 3 -> seriesX
                    [] d = 5 -> Season1 [] d = 7 -> seriesY

\* The state of a file: sound; sound to open but not to parse; of size zero;
\* not to be opened for want of permission; sound and of less than 100 KB;
\* gone since it was listed.
Conditions == {"ok", "corrupt", "empty", "denied", "small", "vanished"}

BaseFS(p) ==
    [name     |-> [n \in Nodes |-> IF n \in Files THEN Stem(n) \o BaseSuffix(p, n)
                                   ELSE BaseDirName(n)],
     present  |-> [n \in Nodes |-> TRUE],
     cond     |-> [f \in Files |-> "ok"],
     units    |-> [f \in Files |-> Units(f)],
     listable |-> [d \in Dirs |-> TRUE],
     root     |-> "directory",
     writable |-> TRUE]

NoFault == <<"none", 0, "none">>

Faults ==
    {<<"name", f, "upper">> : f \in {1, 4, 6}}
      \cup {<<"name", f, "other">> : f \in {2, 4}}
      \cup {<<"name", f, "hidden">> : f \in {1, 4}}
      \cup {<<"cond", f, "corrupt">> : f \in Files}
      \cup {<<"cond", f, "empty">> : f \in {1, 4}}
      \cup {<<"cond", f, "denied">> : f \in {2, 6}}
      \cup {<<"units", f, "zero">> : f \in {1, 4}}
      \cup {<<"dir", d, "excluded">> : d \in Dirs}
      \cup {<<"dir", 3, "nearmiss">>}
      \cup {<<"dir", 7, "dotted">>}
      \cup {<<"absent", d, "absent">> : d \in {5, 7}}
      \cup {<<"list", d, "unlistable">> : d \in Dirs}

ApplyFault(t, x, p) ==
    LET n == x[2] v == x[3]
    IN  CASE x[1] = "name" ->
                 [t EXCEPT !.name[n] =
                     CASE v = "upper"  -> Stem(n) \o Upper(BaseSuffix(p, n))
                       [] v = "other"  -> Stem(n) \o txt
                       [] v = "hidden" -> BaseSuffix(p, n)]
          [] x[1] = "cond"  -> [t EXCEPT !.cond[n] = v]
          [] x[1] = "units" -> [t EXCEPT !.units[n] = 0]
          [] x[1] = "dir"   ->
                 [t EXCEPT !.name[n] =
                     CASE v = "excluded" -> IF n = 7 THEN Extras ELSE Subs
                       [] v = "nearmiss" -> IF n = 7 THEN Lower(Extras) ELSE Lower(Subs)
                       [] v = "dotted"   -> <<"g">> \o BaseSuffix(p, 1)]
          [] x[1] = "absent" -> [t EXCEPT !.present[n] = FALSE]
          [] x[1] = "list"  -> [t EXCEPT !.listable[n] = FALSE]
          [] OTHER -> t

RECURSIVE ApplyFaults(_, _, _)
ApplyFaults(t, xs, p) ==
    IF xs = <<>> THEN t ELSE ApplyFaults(ApplyFault(t, Head(xs), p), Tail(xs), p)

Trees(p) == {ApplyFaults(BaseFS(p), xs, p) : xs \in [1..MaxFaults -> Faults \cup {NoFault}]}

\* What the path a script is started on may be.  pageCounter and seriesLength
\* run on the working directory; length takes the path as an argument and
\* comanga.main as a parameter, and a path given may lead nowhere or to a file.
RootStates(p) ==
    IF p \in {"length", "comanga"} THEN {"directory", "missing", "file"}
    ELSE {"directory"}

\* The trees of Spec, a regular tree under each kind of path, and trees in a
\* place where the report cannot be written (the open or a write raises).
EnvTrees(p) ==
    Trees(p)
      \cup {[BaseFS(p) EXCEPT !.root = r] : r \in RootStates(p)}
      \cup {[ApplyFault(BaseFS(p), x, p) EXCEPT !.writable = FALSE] :
               x \in Faults \cup {NoFault}}

\* Path.is_dir and Path.is_file.
IsDir(n) == n \in Dirs
IsFile(n) == n \in Files

\* A listing that yields the entries the other way round once a first run
\* of the script has returned.
RECURSIVE Entries_turnedOnSecondRun(_, _)
Entries_turnedOnSecondRun(d, n) ==
    IF n > 8 THEN <<>>
    ELSE LET here == IF n # Root /\ Parent(n) = d /\ fs.present[n] THEN <<n>> ELSE <<>>
         IN  IF call.fn = "none"
             THEN here \o Entries_turnedOnSecondRun(d, n + 1)
             ELSE Entries_turnedOnSecondRun(d, n + 1) \o here

\* The entries of a directory in the order a listing yields them.
RECURSIVE Entries(_, _)
Entries(d, n) ==
    IF n > 8 THEN <<>>
    ELSE (IF n # Root /\ Parent(n) = d /\ fs.present[n] THEN <<n>> ELSE <<>>)
             \o Entries(d, n + 1)

\* str(path): the names from the root down.
RECURSIVE PathOf(_)
PathOf(n) == IF n = Root THEN <<fs.name[n]>> ELSE Append(PathOf(Parent(n)), fs.name[n])

(***************************************************************************)
(* Discovery: shared_utils.find_files_by_extensions and                    *)
(* length.find_video_files.                                                *)
(***************************************************************************)
\* The directories a walk goes on into: dirs[:] = [d for d in dirs if ...].
KeepDir(d, exclude_dirs) == fs.name[d] \notin exclude_dirs

\* The test a file passes to be returned.
MatchesExtension(n, extensions) == Lower(Suffix(fs.name[n])) \in extensions

\* The error of a listing with a slip: it ends the walk.
AfterListError_abortsWalk(paths) == <<>>

\* What a walk still has to list once a directory could not be listed: the
\* error is dropped and the walk goes on with the directories left.
AfterListError(paths) == Tail(paths)

\* Path.walk, top down, with the loop body of find_files_by_extensions: paths
\* holds the directories still to list, files what was found so far.  A
\* directory that cannot be listed is passed over (on_error is None).
RECURSIVE Walk(_, _, _, _)
Walk(paths, extensions, exclude_dirs, files) ==
    IF paths = <<>> THEN files
    ELSE LET path == Head(paths)
             dirs == SelectSeq(Entries(path, 0), IsDir)
             filenames == SelectSeq(Entries(path, 0), IsFile)
         IN  IF ~fs.listable[path]
             THEN Walk(AfterListError(paths), extensions, exclude_dirs, files)
             ELSE Walk(SelectSeq(dirs, LAMBDA d : KeepDir(d, exclude_dirs)) \o Tail(paths),
                       extensions, exclude_dirs,
                       files \o SelectSeq(filenames,
                                          LAMBDA n : MatchesExtension(n, extensions)))

\* The non-recursive branch with a slip: it walks the tree all the same.
ListDirectory_descends(directory, extensions) ==
    Walk(<<directory>>, extensions, {}, <<>>)

\* The non-recursive branch: the files among the entries of the directory.
\* iterdir raises on a directory that cannot be listed; the error is caught
\* and the list, still empty, is returned.
ListDirectory(directory, extensions) ==
    IF ~fs.listable[directory] THEN <<>>
    ELSE SelectSeq(Entries(directory, 0),
                   LAMBDA n : IsFile(n) /\ MatchesExtension(n, extensions))

find_files_by_extensions(directory, extensions, exclude_dirs, recursive) ==
    IF recursive THEN Walk(<<directory>>, extensions, exclude_dirs, <<>>)
    ELSE ListDirectory(directory, extensions)

\* The pruning with a slip: nothing is removed from dirs.
VideoKeepDir_keepsAll(d, excluded_dirs) == TRUE

\* length.find_video_files: the same walk over os.walk.
VideoKeepDir(d, excluded_dirs) == fs.name[d] \notin excluded_dirs

\* The test of a suffix with a slip: the suffix is compared as it is written.
IsVideo_caseSensitive(n, video_extensions) == Suffix(fs.name[n]) \in video_extensions

IsVideo(n, video_extensions) == Lower(Suffix(fs.name[n])) \in video_extensions

RECURSIVE OsWalk(_, _, _, _)
OsWalk(paths, video_extensions, excluded_dirs, video_files) ==
    IF paths = <<>> THEN video_files
    ELSE LET root == Head(paths)
             dirs == SelectSeq(Entries(root, 0), IsDir)
             files == SelectSeq(Entries(root, 0), IsFile)
         IN  IF ~fs.listable[root]
             THEN OsWalk(AfterListError(paths), video_extensions, excluded_dirs, video_files)
             ELSE OsWalk(SelectSeq(dirs, LAMBDA d : VideoKeepDir(d, excluded_dirs))
                             \o Tail(paths),
                         video_extensions, excluded_dirs,
                         video_files \o SelectSeq(files,
                                                  LAMBDA n : IsVideo(n, video_extensions)))

find_video_files(base_path, video_extensions, excluded_dirs) ==
    OsWalk(<<base_path>>, video_extensions, excluded_dirs, <<>>)

(***************************************************************************)
(* The checks made on a file before it is counted, and the counters.       *)
(***************************************************************************)
\* Path.stat().st_size.
StSize(f) ==
    IF fs.cond[f] = "empty" THEN 0 ELSE IF fs.cond[f] = "small" THEN 51200 ELSE 204800

\* Path.exists.
Exists(f) == fs.cond[f] # "vanished"

\* open(file_path, 'rb') and the read of one byte go through.
CanOpen(f) == fs.cond[f] # "denied"

\* The check with a slip: the size of the file is not looked at.
safe_file_operation_skipsSize(f) == Exists(f) /\ IsFile(f) /\ CanOpen(f)

\* shared_utils.safe_file_operation; each error it meets makes it return False.
safe_file_operation(f) == Exists(f) /\ IsFile(f) /\ StSize(f) # 0 /\ CanOpen(f)

\* What a call returns or raises.
Returned(v) == [raised |-> FALSE, value |-> v, error |-> "none"]
Raised(e) == [raised |-> TRUE, value |-> 0, error |-> e]

\* A format counter (count_pdf_pages and the like): the units of a file that
\* parses, an exception for one that does not.
FormatCounter(f) ==
    IF fs.cond[f] \in {"ok", "small"}
    THEN Returned(fs.units[f]) ELSE Raised("Error processing file")

\* Sorting a list of (name, count) pairs by count: sorted(..., key=lambda x: x[1]),
\* which keeps the order of pairs with equal counts.
\* The sort with a slip: a pair goes before the pairs of its own count.
RECURSIVE InsertByCount_beforeEqual(_, _)
InsertByCount_beforeEqual(sorted, x) ==
    IF sorted = <<>> THEN <<x>>
    ELSE IF x[2] <= Head(sorted)[2] THEN <<x>> \o sorted
         ELSE <<Head(sorted)>> \o InsertByCount_beforeEqual(Tail(sorted), x)

RECURSIVE InsertByCount(_, _)
InsertByCount(sorted, x) ==
    IF sorted = <<>> THEN <<x>>
    ELSE IF x[2] < Head(sorted)[2] THEN <<x>> \o sorted
         ELSE <<Head(sorted)>> \o InsertByCount(Tail(sorted), x)

RECURSIVE SortedByCount(_)
SortedByCount(pairs) ==
    IF pairs = <<>> THEN <<>>
    ELSE InsertByCount(SortedByCount(SubSeq(pairs, 1, Len(pairs) - 1)), pairs[Len(pairs)])

\* The sum with a slip: the last pair is left out.
RECURSIVE SumCounts_skipsLast(_)
SumCounts_skipsLast(pairs) ==
    IF Len(pairs) <= 1 THEN 0 ELSE Head(pairs)[2] + SumCounts_skipsLast(Tail(pairs))

RECURSIVE SumCounts(_)
SumCounts(pairs) == IF pairs = <<>> THEN 0 ELSE Head(pairs)[2] + SumCounts(Tail(pairs))

\* The files handed to a format counter so far, after a file that passed the
\* check of its access is dispatched: the counter registered for its suffix,
\* if there is one, is called on it.
CalledOn(counter_calls, f, registered) ==
    IF Lower(Suffix(fs.name[f])) \in registered THEN Append(counter_calls, f)
    ELSE counter_calls

\* The persist operation with a slip: the error of the write is not caught.
save_results_to_file_raises(writable) ==
    IF writable THEN Returned(TRUE) ELSE Raised("Error saving results")

\* shared_utils.save_results_to_file: True when the file is written, False
\* when the open or a write raised; the error is caught and logged.
save_results_to_file(writable) == Returned(writable)

\* length.save_results, which has the same try and returns nothing: the value
\* here is whether the file is written.
save_results(writable) == Returned(writable)

\* The report of a run: whether one was made, its lines in order, and the two
\* figures of its summary, and whether it was written to its file.
NoReport ==
    [shown |-> FALSE, saved |-> FALSE, lines |-> <<>>, total_items |-> 0, total_count |-> 0]

\* ProgressReporter.__init__ and ProgressReporter.update; events keeps the
\* (current, total) pairs that update has logged.
ProgressReporter(total) == [current |-> 0, total |-> total, events |-> <<>>]
Update(progress) ==
    [progress EXCEPT !.current = @ + 1,
                     !.events = Append(@, <<progress.current + 1, progress.total>>)]

(***************************************************************************)
(* pageCounter.py                                                          *)
(***************************************************************************)
PageCounterExtensions == {pdf, epub, docx}

\* pageCounter.count_file_pages.
count_file_pages(f) ==
    IF Lower(Suffix(fs.name[f])) \in {pdf, epub, docx}
    THEN FormatCounter(f)
    ELSE Raised("Unsupported file format")

PageCounterInit ==
    [files |-> <<>>, i |-> 1, files_with_pages |-> <<>>, error_files |-> <<>>,
     counter_calls |-> <<>>, progress |-> ProgressReporter(0), report |-> NoReport]

\* count_pages_in_directory up to its loop: the files of the directory itself.
PC_FindFiles ==
    /\ prog = "pageCounter" /\ pc = "start"
    /\ LET files == find_files_by_extensions(Root, PageCounterExtensions, {}, FALSE)
       IN  /\ pageCounter' = [pageCounter EXCEPT !.files = files,
                                                 !.progress = ProgressReporter(Len(files))]
           /\ pc' = IF files = <<>> THEN "display" ELSE "scan"
    /\ UNCHANGED <<others, prog, fs, comanga, seriesLength, length>>

\* The loop body with a slip: an inaccessible file is passed over and not
\* recorded among the errors.
PC_LoopBody_dropsInaccessible(st, file_path) ==
    LET page_count == count_file_pages(file_path)
    IN  IF ~safe_file_operation(file_path)
        THEN [st EXCEPT !.progress = Update(@), !.i = @ + 1]
        ELSE IF page_count.raised
        THEN [st EXCEPT
                !.error_files = Append(@, <<fs.name[file_path], page_count.error>>),
                !.progress = Update(@),
                !.i = @ + 1]
        ELSE [st EXCEPT
                !.files_with_pages = Append(@, <<fs.name[file_path], page_count.value>>),
                !.progress = Update(@),
                !.i = @ + 1]

\* The loop body with a slip: a counter that raises ends the loop.
PC_LoopBody_breaksOnError(st, file_path) ==
    LET page_count == count_file_pages(file_path)
    IN  IF ~safe_file_operation(file_path)
        THEN [st EXCEPT
                !.error_files = Append(@, <<fs.name[file_path], "File access error">>),
                !.progress = Update(@),
                !.i = @ + 1]
        ELSE IF page_count.raised
        THEN [st EXCEPT
                !.error_files = Append(@, <<fs.name[file_path], page_count.error>>),
                !.i = Len(st.files) + 1]
        ELSE [st EXCEPT
                !.files_with_pages = Append(@, <<fs.name[file_path], page_count.value>>),
                !.progress = Update(@),
                !.i = @ + 1]

\* The loop body with a slip: the error of a counter is recorded with the
\* reason of a file that could not be accessed.
PC_LoopBody_oneReason(st, file_path) ==
    LET page_count == count_file_pages(file_path)
    IN  IF ~safe_file_operation(file_path) \/ page_count.raised
        THEN [st EXCEPT
                !.error_files = Append(@, <<fs.name[file_path], "File access error">>),
                !.progress = Update(@),
                !.i = @ + 1]
        ELSE [st EXCEPT
                !.files_with_pages = Append(@, <<fs.name[file_path], page_count.value>>),
                !.progress = Update(@),
                !.i = @ + 1]

\* The body of the loop of count_pages_in_directory: what one file makes of
\* the locals st.
\* The loop body with a slip: the turn of an inaccessible file ends without
\* the update of the progress.
PC_LoopBody_silentSkip(st, file_path) ==
    LET page_count == count_file_pages(file_path)
    IN  IF ~safe_file_operation(file_path)
        THEN [st EXCEPT
                !.error_files = Append(@, <<fs.name[file_path], "File access error">>),
                !.i = @ + 1]
        ELSE IF page_count.raised
        THEN [st EXCEPT
                !.error_files = Append(@, <<fs.name[file_path], page_count.error>>),
                !.counter_calls = CalledOn(@, file_path, PageCounterExtensions),
                !.progress = Update(@),
                !.i = @ + 1]
        ELSE [st EXCEPT
                !.files_with_pages = Append(@, <<fs.name[file_path], page_count.value>>),
                !.counter_calls = CalledOn(@, file_path, PageCounterExtensions),
                !.progress = Update(@),
                !.i = @ + 1]

PC_LoopBody(st, file_path) ==
    LET page_count == count_file_pages(file_path)
    IN  IF ~safe_file_operation(file_path)
        THEN [st EXCEPT
                !.error_files = Append(@, <<fs.name[file_path], "File access error">>),
                !.progress = Update(@),
                !.i = @ + 1]
        ELSE IF page_count.raised
        THEN [st EXCEPT
                !.error_files = Append(@, <<fs.name[file_path], page_count.error>>),
                !.counter_calls = CalledOn(@, file_path, PageCounterExtensions),
                !.progress = Update(@),
                !.i = @ + 1]
        ELSE [st EXCEPT
                !.files_with_pages = Append(@, <<fs.name[file_path], page_count.value>>),
                !.counter_calls = CalledOn(@, file_path, PageCounterExtensions),
                !.progress = Update(@),
                !.i = @ + 1]

\* One turn of the loop of count_pages_in_directory.
PC_ProcessFile ==
    /\ prog = "pageCounter" /\ pc = "scan"
    /\ pageCounter.i <= Len(pageCounter.files)
    /\ pageCounter' = PC_LoopBody(pageCounter, pageCounter.files[pageCounter.i])
    /\ UNCHANGED <<others, prog, pc, fs, comanga, seriesLength, length>>

\* The loop is through: count_pages_in_directory returns files_with_pages.
PC_Return ==
    /\ prog = "pageCounter" /\ pc = "scan"
    /\ pageCounter.i > Len(pageCounter.files)
    /\ pc' = "display"
    /\ UNCHANGED <<others, prog, fs, pageCounter, comanga, seriesLength, length>>

\* display_and_save_results with a slip: 'Total files' is the number of files
\* found, not of files listed.
PC_DisplayAndSave_countsFound ==
    /\ prog = "pageCounter" /\ pc = "display"
    /\ LET sorted_files == SortedByCount(pageCounter.files_with_pages)
       IN  pageCounter' =
             IF pageCounter.files_with_pages = <<>> THEN pageCounter
             ELSE [pageCounter EXCEPT !.report =
                     [shown |-> TRUE, saved |-> save_results_to_file(fs.writable).value,
                      lines |-> sorted_files,
                      total_items |-> Len(pageCounter.files),
                      total_count |-> SumCounts(sorted_files)]]
    /\ pc' = IF pageCounter.files_with_pages # <<>> /\ save_results_to_file(fs.writable).raised
             THEN "crashed" ELSE "done"
    /\ UNCHANGED <<others, prog, fs, comanga, seriesLength, length>>

\* pageCounter.display_and_save_results.
PC_DisplayAndSave ==
    /\ prog = "pageCounter" /\ pc = "display"
    /\ LET sorted_files == SortedByCount(pageCounter.files_with_pages)
       IN  pageCounter' =
             IF pageCounter.files_with_pages = <<>> THEN pageCounter
             ELSE [pageCounter EXCEPT !.report =
                     [shown |-> TRUE, saved |-> save_results_to_file(fs.writable).value,
                      lines |-> sorted_files,
                      total_items |-> Len(sorted_files),
                      total_count |-> SumCounts(sorted_files)]]
    /\ pc' = IF pageCounter.files_with_pages # <<>> /\ save_results_to_file(fs.writable).raised
             THEN "crashed" ELSE "done"
    /\ UNCHANGED <<others, prog, fs, comanga, seriesLength, length>>

PageCounterNext == PC_FindFiles \/ PC_ProcessFile \/ PC_Return \/ PC_DisplayAndSave

(***************************************************************************)
(* comanga.py                                                              *)
(***************************************************************************)
ComangaExtensions == {cbz, cbr, epub, pdf}

\* results[key] = value on a dict, which keeps its keys in the order of their
\* first assignment.
RECURSIVE DictSet(_, _, _)
DictSet(dict, key, value) ==
    IF dict = <<>> THEN <<<<key, value>>>>
    ELSE IF Head(dict)[1] = key THEN <<<<key, value>>>> \o Tail(dict)
         ELSE <<Head(dict)>> \o DictSet(Tail(dict), key, value)

\* comanga.get_page_counter and comanga.count_pages_in_file: 0 for a suffix
\* with no counter.
count_pages_in_file(f) ==
    IF Lower(Suffix(fs.name[f])) \in {cbz, cbr, epub, pdf}
    THEN FormatCounter(f)
    ELSE Returned(0)

ComangaInit ==
    [results |-> <<>>, items |-> <<>>, k |-> 1, files |-> <<>>, i |-> 1,
     total_pages |-> 0, file_count |-> 0, counter_calls |-> <<>>,
     progress |-> ProgressReporter(0), report |-> NoReport]

\* count_pages_in_directory up to its loop.  With a directory that does not
\* exist it returns its empty results.  Listing the directory is not guarded:
\* a root that is no directory or cannot be listed ends the run with the
\* error.
CM_Start ==
    /\ prog = "comanga" /\ pc = "start"
    /\ IF fs.root = "missing"
       THEN /\ pc' = "display"
            /\ UNCHANGED comanga
       ELSE IF fs.root = "directory" /\ fs.listable[Root]
       THEN /\ comanga' = [comanga EXCEPT !.items = Entries(Root, 0)]
            /\ pc' = "scan"
       ELSE /\ pc' = "crashed"
            /\ UNCHANGED comanga
    /\ UNCHANGED <<others, prog, fs, pageCounter, seriesLength, length>>

\* The item is a directory: its files are looked for; with none the group is
\* recorded at once.
CM_EnterDirectory ==
    /\ prog = "comanga" /\ pc = "scan"
    /\ comanga.k <= Len(comanga.items)
    /\ LET item == comanga.items[comanga.k]
           files == find_files_by_extensions(item, ComangaExtensions, {}, TRUE)
       IN  /\ IsDir(item)
           /\ IF files # <<>>
              THEN /\ comanga' = [comanga EXCEPT !.files = files, !.i = 1,
                                                 !.total_pages = 0, !.file_count = 0,
                                                 !.progress = ProgressReporter(Len(files))]
                   /\ pc' = "group"
              ELSE /\ comanga' = [comanga EXCEPT !.files = files, !.i = 1,
                                                 !.total_pages = 0, !.file_count = 0,
                                                 !.results = DictSet(@, fs.name[item], 0),
                                                 !.k = @ + 1]
                   /\ pc' = "scan"
    /\ UNCHANGED <<others, prog, fs, pageCounter, seriesLength, length>>

\* The loop body with a slip: file_count is raised for a file that failed too.
CM_LoopBody_countsFailed(st, file_path) ==
    LET pages == count_pages_in_file(file_path)
    IN  IF safe_file_operation(file_path) /\ ~pages.raised
        THEN [st EXCEPT !.total_pages = @ + pages.value,
                        !.file_count = @ + 1,
                        !.progress = Update(@),
                        !.i = @ + 1]
        ELSE [st EXCEPT !.file_count = @ + 1, !.progress = Update(@), !.i = @ + 1]

\* The loop body with a slip: total_pages = pages for total_pages += pages.
CM_LoopBody_overwritesTotal(st, file_path) ==
    LET pages == count_pages_in_file(file_path)
    IN  IF safe_file_operation(file_path) /\ ~pages.raised
        THEN [st EXCEPT !.total_pages = pages.value,
                        !.file_count = @ + 1,
                        !.progress = Update(@),
                        !.i = @ + 1]
        ELSE [st EXCEPT !.progress = Update(@), !.i = @ + 1]

\* The failures the loop over a group has tallied.  Neither script keeps such
\* a tally: the branches of comanga for an inaccessible file and for a counter
\* that raised only log, and seriesLength.get_video_duration turns an error
\* into a duration of 0.
FailureTally(st) == 0

\* The body of the loop over the files of a subdirectory: a file that is
\* inaccessible, or whose counter raises, leaves the two counters as they are.
CM_LoopBody(st, file_path) ==
    LET pages == count_pages_in_file(file_path)
    IN  IF safe_file_operation(file_path) /\ ~pages.raised
        THEN [st EXCEPT !.total_pages = @ + pages.value,
                        !.file_count = @ + 1,
                        !.counter_calls = CalledOn(@, file_path, ComangaExtensions),
                        !.progress = Update(@),
                        !.i = @ + 1]
        ELSE [st EXCEPT !.counter_calls = IF safe_file_operation(file_path)
                                          THEN CalledOn(@, file_path, ComangaExtensions)
                                          ELSE @,
                        !.progress = Update(@),
                        !.i = @ + 1]

\* One turn of the loop over the files of a subdirectory.
CM_ProcessFile ==
    /\ prog = "comanga" /\ pc = "group"
    /\ comanga.i <= Len(comanga.files)
    /\ comanga' = CM_LoopBody(comanga, comanga.files[comanga.i])
    /\ UNCHANGED <<others, prog, pc, fs, pageCounter, seriesLength, length>>

\* The files of the subdirectory are through: results[item.name] = total_pages.
CM_LeaveDirectory ==
    /\ prog = "comanga" /\ pc = "group"
    /\ comanga.i > Len(comanga.files)
    /\ comanga' = [comanga EXCEPT
                     !.results = DictSet(@, fs.name[comanga.items[comanga.k]],
                                         comanga.total_pages),
                     !.k = @ + 1]
    /\ pc' = "scan"
    /\ UNCHANGED <<others, prog, fs, pageCounter, seriesLength, length>>

\* The branch of an item that is no directory: a file of a supported suffix
\* is counted on its own, and recorded with 0 when it cannot be; anything
\* else is passed over.
CM_ItemBody(st, item) ==
    LET pages == count_pages_in_file(item)
    IN  IF Lower(Suffix(fs.name[item])) \notin ComangaExtensions
        THEN [st EXCEPT !.k = @ + 1]
        ELSE IF safe_file_operation(item) /\ ~pages.raised
        THEN [st EXCEPT !.results = DictSet(@, fs.name[item], pages.value),
                        !.counter_calls = CalledOn(@, item, ComangaExtensions),
                        !.k = @ + 1]
        ELSE [st EXCEPT !.results = DictSet(@, fs.name[item], 0),
                        !.counter_calls = IF safe_file_operation(item)
                                          THEN CalledOn(@, item, ComangaExtensions)
                                          ELSE @,
                        !.k = @ + 1]

CM_ProcessItem ==
    /\ prog = "comanga" /\ pc = "scan"
    /\ comanga.k <= Len(comanga.items)
    /\ ~IsDir(comanga.items[comanga.k])
    /\ comanga' = CM_ItemBody(comanga, comanga.items[comanga.k])
    /\ UNCHANGED <<others, prog, pc, fs, pageCounter, seriesLength, length>>

\* The items are through: count_pages_in_directory returns results.
CM_Return ==
    /\ prog = "comanga" /\ pc = "scan"
    /\ comanga.k > Len(comanga.items)
    /\ pc' = "display"
    /\ UNCHANGED <<others, prog, fs, pageCounter, comanga, seriesLength, length>>

\* comanga.display_results.
CM_Display ==
    /\ prog = "comanga" /\ pc = "display"
    /\ LET sorted_results == SortedByCount(comanga.results)
       IN  comanga' =
             IF comanga.results = <<>> THEN comanga
             ELSE [comanga EXCEPT !.report =
                     [shown |-> TRUE, saved |-> save_results_to_file(fs.writable).value,
                      lines |-> sorted_results,
                      total_items |-> Len(comanga.results),
                      total_count |-> SumCounts(sorted_results)]]
    /\ pc' = IF comanga.results # <<>> /\ save_results_to_file(fs.writable).raised
             THEN "crashed" ELSE "done"
    /\ UNCHANGED <<others, prog, fs, pageCounter, seriesLength, length>>

\* The summary of failures a script ends its scan with: pageCounter logs its
\* error_files, name and reason; comanga, seriesLength and length keep no
\* list of the files that failed.
FailureSummary(script) == IF script = "pageCounter" THEN pageCounter.error_files ELSE <<>>

ComangaNext ==
    \/ CM_Start \/ CM_EnterDirectory \/ CM_ProcessFile \/ CM_LeaveDirectory
    \/ CM_ProcessItem \/ CM_Return \/ CM_Display

(***************************************************************************)
(* seriesLength.py                                                         *)
(***************************************************************************)
VideoExtensions == {mp4, avi, mkv, mov, wmv, flv, webm}

DefaultExcludedDirs == {Sub, Subs, Subtitles, Featurettes, Extras}

\* VideoFileClip(path).duration: the seconds of a file that parses, an
\* exception for any other.
VideoFileClip(f) ==
    IF fs.cond[f] \in {"ok", "small"}
    THEN Returned(fs.units[f]) ELSE Raised("Error opening video")

\* seriesLength.get_video_duration: clip.duration or 0, and 0 on an error.
series_get_video_duration(f) ==
    IF VideoFileClip(f).raised THEN 0 ELSE VideoFileClip(f).value

SeriesLengthInit ==
    [series_durations |-> <<>>, items |-> <<>>, k |-> 1, video_files |-> <<>>, i |-> 1,
     total_duration |-> 0, progress |-> ProgressReporter(0), report |-> NoReport]

\* get_series_durations up to its loop; listing the directory is not guarded.
SL_Start ==
    /\ prog = "seriesLength" /\ pc = "start"
    /\ IF fs.listable[Root]
       THEN /\ seriesLength' = [seriesLength EXCEPT !.items = Entries(Root, 0)]
            /\ pc' = "scan"
       ELSE /\ pc' = "crashed"
            /\ UNCHANGED seriesLength
    /\ UNCHANGED <<others, prog, fs, pageCounter, comanga, length>>

\* The item is a directory that is not excluded: a series.
SL_EnterSeries ==
    /\ prog = "seriesLength" /\ pc = "scan"
    /\ seriesLength.k <= Len(seriesLength.items)
    /\ LET item == seriesLength.items[seriesLength.k]
           video_files == find_files_by_extensions(item, VideoExtensions,
                                                   DefaultExcludedDirs, TRUE)
       IN  /\ IsDir(item) /\ fs.name[item] \notin DefaultExcludedDirs
           /\ IF video_files # <<>>
              THEN /\ seriesLength' =
                        [seriesLength EXCEPT !.video_files = video_files, !.i = 1,
                                             !.total_duration = 0,
                                             !.progress = ProgressReporter(Len(video_files))]
                   /\ pc' = "group"
              ELSE /\ seriesLength' =
                        [seriesLength EXCEPT !.video_files = video_files, !.i = 1,
                                             !.series_durations = DictSet(@, fs.name[item], 0),
                                             !.k = @ + 1]
                   /\ pc' = "scan"
    /\ UNCHANGED <<others, prog, fs, pageCounter, comanga, length>>

\* Any other item is passed over.
SL_SkipItem ==
    /\ prog = "seriesLength" /\ pc = "scan"
    /\ seriesLength.k <= Len(seriesLength.items)
    /\ LET item == seriesLength.items[seriesLength.k]
       IN  ~(IsDir(item) /\ fs.name[item] \notin DefaultExcludedDirs)
    /\ seriesLength' = [seriesLength EXCEPT !.k = @ + 1]
    /\ UNCHANGED <<others, prog, pc, fs, pageCounter, comanga, length>>

\* The body of the loop over the videos of a series.
SL_LoopBody(st, video_file) ==
    LET duration == series_get_video_duration(video_file)
    IN  [st EXCEPT !.total_duration = @ + duration, !.progress = Update(@), !.i = @ + 1]

\* One turn of the loop over the videos of a series.
SL_ProcessFile ==
    /\ prog = "seriesLength" /\ pc = "group"
    /\ seriesLength.i <= Len(seriesLength.video_files)
    /\ seriesLength' = SL_LoopBody(seriesLength, seriesLength.video_files[seriesLength.i])
    /\ UNCHANGED <<others, prog, pc, fs, pageCounter, comanga, length>>

\* The videos of the series are through.
SL_LeaveSeries ==
    /\ prog = "seriesLength" /\ pc = "group"
    /\ seriesLength.i > Len(seriesLength.video_files)
    /\ seriesLength' =
         [seriesLength EXCEPT
            !.series_durations = DictSet(@, fs.name[seriesLength.items[seriesLength.k]],
                                         seriesLength.total_duration),
            !.k = @ + 1]
    /\ pc' = "scan"
    /\ UNCHANGED <<others, prog, fs, pageCounter, comanga, length>>

SL_Return ==
    /\ prog = "seriesLength" /\ pc = "scan"
    /\ seriesLength.k > Len(seriesLength.items)
    /\ pc' = "display"
    /\ UNCHANGED <<others, prog, fs, pageCounter, comanga, seriesLength, length>>

\* seriesLength.main from the sort on.
SL_Display ==
    /\ prog = "seriesLength" /\ pc = "display"
    /\ LET sorted_durations == SortedByCount(seriesLength.series_durations)
       IN  seriesLength' =
             IF seriesLength.series_durations = <<>> THEN seriesLength
             ELSE [seriesLength EXCEPT !.report =
                     [shown |-> TRUE, saved |-> save_results_to_file(fs.writable).value,
                      lines |-> sorted_durations,
                      total_items |-> Len(seriesLength.series_durations),
                      total_count |-> SumCounts(sorted_durations)]]
    /\ pc' = IF seriesLength.series_durations # <<>> /\ save_results_to_file(fs.writable).raised
             THEN "crashed" ELSE "done"
    /\ UNCHANGED <<others, prog, fs, pageCounter, comanga, length>>

SeriesLengthNext ==
    \/ SL_Start \/ SL_EnterSeries \/ SL_SkipItem \/ SL_ProcessFile
    \/ SL_LeaveSeries \/ SL_Return \/ SL_Display

(***************************************************************************)
(* length.py                                                               *)
(***************************************************************************)
\* length.get_video_duration: None for a file that is empty, smaller than
\* 100 KB, not to be opened as a video or of no positive duration; else the
\* duration and the size.
None == [none |-> TRUE, duration |-> 0, file_size |-> 0]

\* get_video_duration without its floor of 100 KB.
get_video_duration_noFloor(f) ==
    IF ~Exists(f) THEN None
    ELSE IF StSize(f) = 0 THEN None
    ELSE IF VideoFileClip(f).raised THEN None
    ELSE IF VideoFileClip(f).value <= 0 THEN None
    ELSE [none |-> FALSE, duration |-> VideoFileClip(f).value, file_size |-> StSize(f)]

\* get_video_duration comes to open the video.
Probed(f) == Exists(f) /\ StSize(f) >= 100 * 1024

get_video_duration(f) ==
    IF ~Exists(f) THEN None
    ELSE IF StSize(f) = 0 THEN None
    ELSE IF StSize(f) < 100 * 1024 THEN None
    ELSE IF VideoFileClip(f).raised THEN None
    ELSE IF VideoFileClip(f).value <= 0 THEN None
    ELSE [none |-> FALSE, duration |-> VideoFileClip(f).value, file_size |-> StSize(f)]

\* The exclusion sets a run is given with --exclude.
ExcludeArguments == {DefaultExcludedDirs, {seriesX, Season1}}

LengthInit(excluded_dirs) ==
    [excluded_dirs |-> excluded_dirs, video_files |-> <<>>, i |-> 1, results |-> <<>>,
     processed_count |-> 0, error_count |-> 0, interrupted |-> FALSE,
     counter_calls |-> <<>>, report |-> NoReport]

\* length.main up to the scan: sys.exit(1) on a path that does not exist or is
\* no directory; else the videos of the tree, and with none it returns.
L_FindVideoFiles ==
    /\ prog = "length" /\ pc = "start"
    /\ LET video_files == find_video_files(Root, VideoExtensions, length.excluded_dirs)
       IN  IF fs.root # "directory"
           THEN /\ pc' = "exit1"
                /\ UNCHANGED length
           ELSE /\ length' = [length EXCEPT !.video_files = video_files]
                /\ pc' = IF video_files = <<>> THEN "done" ELSE "scan"
    /\ UNCHANGED <<others, prog, fs, pageCounter, comanga, seriesLength>>

\* The body of the loop of analyze_videos_sequential.
L_LoopBody(st, video_path) ==
    LET result == get_video_duration(video_path)
    IN  IF ~result.none
        THEN [st EXCEPT
                !.results = DictSet(@, PathOf(video_path),
                                    [duration |-> result.duration,
                                     file_size |-> result.file_size]),
                !.processed_count = @ + 1,
                !.counter_calls = Append(@, video_path),
                !.i = @ + 1]
        ELSE [st EXCEPT !.error_count = @ + 1,
                        !.counter_calls = IF Probed(video_path)
                                          THEN Append(@, video_path) ELSE @,
                        !.i = @ + 1]

\* One turn of the loop of analyze_videos_sequential.
L_ProcessFile ==
    /\ prog = "length" /\ pc = "scan"
    /\ length.i <= Len(length.video_files)
    /\ length' = L_LoopBody(length, length.video_files[length.i])
    /\ UNCHANGED <<others, prog, pc, fs, pageCounter, comanga, seriesLength>>

\* A KeyboardInterrupt within a turn of the loop: the loop is left.
L_Interrupt ==
    /\ prog = "length" /\ pc = "scan"
    /\ length.i <= Len(length.video_files)
    /\ length' = [length EXCEPT !.interrupted = TRUE]
    /\ pc' = "save"
    /\ UNCHANGED <<others, prog, fs, pageCounter, comanga, seriesLength>>

\* The loop is through: analyze_videos_sequential returns results.
L_Return ==
    /\ prog = "length" /\ pc = "scan"
    /\ length.i > Len(length.video_files)
    /\ pc' = "save"
    /\ UNCHANGED <<others, prog, fs, pageCounter, comanga, seriesLength, length>>

\* The (path, duration) pairs of results.
Durations(results) == [j \in 1..Len(results) |-> <<results[j][1], results[j][2].duration>>]

\* length.main from the scan on: save_results in its text format, when there
\* are results.
L_SaveResults ==
    /\ prog = "length" /\ pc = "save"
    /\ LET sorted_items == SortedByCount(Durations(length.results))
       IN  length' =
             IF length.results = <<>> THEN length
             ELSE [length EXCEPT !.report =
                     [shown |-> TRUE, saved |-> save_results(fs.writable).value,
                      lines |-> sorted_items,
                      total_items |-> Len(length.results),
                      total_count |-> SumCounts(Durations(length.results))]]
    /\ pc' = IF length.results # <<>> /\ save_results(fs.writable).raised
             THEN "crashed" ELSE "done"
    /\ UNCHANGED <<others, prog, fs, pageCounter, comanga, seriesLength>>

LengthNext ==
    \/ L_FindVideoFiles \/ L_ProcessFile \/ L_Interrupt \/ L_Return \/ L_SaveResults

(***************************************************************************)
(* The formatting functions and steamSorter.py.                            *)
(***************************************************************************)
\* No formatting function has been called.
NoCall == [fn |-> "none"]

\* The digits str() and the format specifications write, 0 first.
Digits == <<"0", "1", "2", "3", "4", "5", "6", "7", "8", "9">>

\* The decimal numeral of a natural number, a sequence of characters.
RECURSIVE Decimal(_)
Decimal(n) ==
    IF n < 10 THEN <<Digits[n + 1]>>
    ELSE Decimal(n \div 10) \o <<Digits[(n % 10) + 1]>>

\* f"{n:02d}": the numeral, with a zero before it when it has one digit.
Format02d(n) == IF Len(Decimal(n)) < 2 THEN <<"0">> \o Decimal(n) ELSE Decimal(n)

\* format_duration whose hours start again at every day.
format_duration_wrapsDay(seconds) ==
    LET hours   == (seconds \div 3600) % 24
        minutes == (seconds % 3600) \div 60
        secs    == seconds % 60
    IN  Format02d(hours) \o <<":">> \o Format02d(minutes) \o <<":">> \o Format02d(secs)

\* format_duration of shared_utils.py; length.py:104-109 has the same body.
format_duration(seconds) ==
    LET hours   == seconds \div 3600
        minutes == (seconds % 3600) \div 60
        secs    == seconds % 60
    IN  Format02d(hours) \o <<":">> \o Format02d(minutes) \o <<":">> \o Format02d(secs)

\* A value that is not None.
Some(x) == [none |-> FALSE, value |-> x]

\* get_owned_games on what the request to the Steam API comes to: an
\* exception of requests, a body that is no JSON, or the object of the body.
get_owned_games(answer) ==
    IF answer.kind \in {"RequestException", "ValueError"} THEN None
    ELSE IF "response" \in DOMAIN answer.data THEN Some(answer.data.response)
         ELSE Some(<<>>)

\* get_game_completion_time on what the search of HowLongToBeat comes to:
\* an exception, or a list of results of which the first counts.
get_game_completion_time(search) ==
    IF search.kind = "raises" THEN None
    ELSE IF search.results # <<>>
         THEN IF search.results[1].main_story # 0 /\ search.results[1].main_story > 0
              THEN Some(search.results[1].main_story)
              ELSE None
         ELSE None

\* not games_data or 'games' not in games_data
NoGamesData(games_data) ==
    \/ games_data.none
    \/ DOMAIN games_data.value = {}
    \/ "games" \notin DOMAIN games_data.value

\* One turn of the loop over games_list that leaves out a game whose search
\* raised.
GameBody_dropsRaised(st, search) ==
    LET game_name == st.games_list[st.j]
    IN  IF \E k \in 1..Len(st.games_completion_times) :
              st.games_completion_times[k][1] = game_name
        THEN [st EXCEPT !.j = @ + 1]
        ELSE IF search.kind = "raises"
             THEN [st EXCEPT !.j = @ + 1,
                             !.searches = Append(@, <<game_name, search>>)]
             ELSE [st EXCEPT !.j = @ + 1,
                             !.searches = Append(@, <<game_name, search>>),
                             !.games_completion_times =
                                 Append(@, <<game_name, get_game_completion_time(search)>>)]

\* One turn of the loop over games_list without the test for a name that is
\* recorded: every game is searched for, and what is found replaces what was.
GameBody_looksUpAgain(st, search) ==
    LET game_name == st.games_list[st.j]
    IN  [st EXCEPT !.j = @ + 1,
                   !.searches = Append(@, <<game_name, search>>),
                   !.games_completion_times =
                       DictSet(@, game_name, get_game_completion_time(search))]

\* One turn of the loop over games_list; searches keeps the calls of
\* get_game_completion_time of the run.
GameBody(st, search) ==
    LET game_name == st.games_list[st.j]
    IN  IF \E k \in 1..Len(st.games_completion_times) :
              st.games_completion_times[k][1] = game_name
        THEN [st EXCEPT !.j = @ + 1]
        ELSE [st EXCEPT !.j = @ + 1,
                        !.searches = Append(@, <<game_name, search>>),
                        !.games_completion_times =
                            Append(@, <<game_name, get_game_completion_time(search)>>)]

\* steamSorter has not been started.  answers keeps what each request of
\* the run came to.
SteamInit ==
    [steam_ids |-> <<>>, i |-> 1, games_list |-> <<>>, j |-> 1,
     games_completion_times |-> <<>>, answers |-> <<>>, searches |-> <<>>]

\* A size in bytes is written in base 1024, lowest digit first, for a
\* terabyte is 1024^4 and does not fit the integers of the checker.  In the
\* loop of format_file_size it is a float: whole is its integer part, lowest
\* digit first, and part the digits after the point, highest first.  A size
\* below 2^53 is a float without loss, and so is each of its quotients.
AsFloat(size_bytes) == [whole |-> size_bytes, part |-> <<>>]

\* The test of the loop with 1024 itself let through.
Below1024_inclusive(size) ==
    \/ \A i \in 2..Len(size.whole) : size.whole[i] = 0
    \/ /\ size.whole[2] = 1 /\ size.whole[1] = 0
       /\ \A i \in 3..Len(size.whole) : size.whole[i] = 0
       /\ \A i \in 1..Len(size.part) : size.part[i] = 0

\* size_bytes < 1024.0
Below1024(size) == \A i \in 2..Len(size.whole) : size.whole[i] = 0

\* size_bytes /= 1024.0
DividedBy1024(size) ==
    [whole |-> IF Len(size.whole) = 1 THEN <<0>> ELSE Tail(size.whole),
     part  |-> <<Head(size.whole)>> \o size.part]

\* The integer part as a number.
RECURSIVE WholeValue(_)
WholeValue(whole) ==
    IF whole = <<>> THEN 0 ELSE Head(whole) + 1024 * WholeValue(Tail(whole))

\* Ten times the digits after the point: what goes over the point, and the
\* digits that stay after it.
RECURSIVE TimesTen(_)
TimesTen(part) ==
    IF part = <<>> THEN [over |-> 0, part |-> <<>>]
    ELSE LET rest == TimesTen(Tail(part))
             x    == Head(part) * 10 + rest.over
         IN  [over |-> x \div 1024, part |-> <<x % 1024>> \o rest.part]

\* f"{size_bytes:.1f}": the tenths nearest to the float, the even one of two
\* that are as near, written with one digit after the point.
Format1f(size) ==
    LET ten    == TimesTen(size.part)
        tenths == WholeValue(size.whole) * 10 + ten.over
        above  == /\ ten.part # <<>>
                  /\ \/ ten.part[1] > 512
                     \/ /\ ten.part[1] = 512
                        /\ \E i \in 2..Len(ten.part) : ten.part[i] # 0
        half   == /\ ten.part # <<>>
                  /\ ten.part[1] = 512
                  /\ \A i \in 2..Len(ten.part) : ten.part[i] = 0
        up     == IF above \/ (half /\ tenths % 2 = 1) THEN 1 ELSE 0
    IN  Decimal((tenths + up) \div 10) \o <<".">> \o <<Digits[((tenths + up) % 10) + 1]>>

\* The loop of format_file_size from the unit at the head of units on.
RECURSIVE FormatFrom(_, _)
FormatFrom(size, units) ==
    IF units = <<>> THEN Format1f(size) \o <<" ", "T", "B">>
    ELSE IF Below1024(size) THEN Format1f(size) \o <<" ">> \o Head(units)
         ELSE FormatFrom(DividedBy1024(size), Tail(units))

\* format_file_size of shared_utils.py; length.py:112-118 has the same body.
format_file_size(size_bytes) ==
    FormatFrom(AsFloat(size_bytes), << <<"B">>, <<"K", "B">>, <<"M", "B">>, <<"G", "B">> >>)

(***************************************************************************)
(* The model.                                                              *)
(***************************************************************************)
Init ==
    /\ call = NoCall
    /\ steam = SteamInit
    /\ prog \in Programs
    /\ pc = "start"
    /\ fs \in Trees(prog)
    /\ pageCounter = PageCounterInit
    /\ comanga = ComangaInit
    /\ seriesLength = SeriesLengthInit
    /\ \E excluded_dirs \in ExcludeArguments :
         length = LengthInit(IF prog = "length" THEN excluded_dirs ELSE DefaultExcludedDirs)

Next == PageCounterNext \/ ComangaNext \/ SeriesLengthNext \/ LengthNext

Spec == Init /\ [][Next]_vars

(***************************************************************************)
(* The dispatch step on its own: the loop bodies of pageCounter and of     *)
(* comanga handed the files of the root as they come, whatever their       *)
(* suffix, as a caller that did not filter them would.                     *)
(***************************************************************************)
DispatchInit ==
    /\ call = NoCall
    /\ steam = SteamInit
    /\ prog \in {"pageCounter", "comanga"}
    /\ pc = "dispatch"
    /\ fs \in Trees(prog)
    /\ LET files == SelectSeq(Entries(Root, 0), IsFile)
       IN  /\ pageCounter = [PageCounterInit EXCEPT !.files = files,
                                                    !.progress = ProgressReporter(Len(files))]
           /\ comanga = [ComangaInit EXCEPT !.files = files,
                                            !.progress = ProgressReporter(Len(files))]
    /\ seriesLength = SeriesLengthInit
    /\ length = LengthInit(DefaultExcludedDirs)

\* pageCounter: one turn of the loop of count_pages_in_directory.
D_PageCounterFile ==
    /\ prog = "pageCounter" /\ pc = "dispatch"
    /\ pageCounter.i <= Len(pageCounter.files)
    /\ pageCounter' = PC_LoopBody(pageCounter, pageCounter.files[pageCounter.i])
    /\ UNCHANGED <<others, prog, pc, fs, comanga, seriesLength, length>>

\* comanga: one turn of the loop over the files of a subdirectory.
D_ComangaFile ==
    /\ prog = "comanga" /\ pc = "dispatch"
    /\ comanga.i <= Len(comanga.files)
    /\ comanga' = CM_LoopBody(comanga, comanga.files[comanga.i])
    /\ UNCHANGED <<others, prog, pc, fs, pageCounter, seriesLength, length>>

DispatchNext == D_PageCounterFile \/ D_ComangaFile

DispatchSpec == DispatchInit /\ [][DispatchNext]_vars

(***************************************************************************)
(* comanga run twice on the same tree: when the first run is through, what *)
(* it returned and reported is kept in call and main is started again.     *)
(* Every name of count_pages_in_directory and display_results is local, so *)
(* the second run starts from the state the first started from.            *)
(***************************************************************************)
TwiceInit ==
    /\ call = NoCall
    /\ steam = SteamInit
    /\ prog = "comanga"
    /\ pc = "start"
    /\ fs \in Trees(prog)
    /\ pageCounter = PageCounterInit
    /\ comanga = ComangaInit
    /\ seriesLength = SeriesLengthInit
    /\ length = LengthInit(DefaultExcludedDirs)

CM_RunAgain ==
    /\ prog = "comanga" /\ pc = "done"
    /\ call = NoCall
    /\ call' = [fn |-> "main", results |-> comanga.results, report |-> comanga.report]
    /\ comanga' = ComangaInit
    /\ pc' = "start"
    /\ UNCHANGED <<steam, prog, fs, pageCounter, seriesLength, length>>

TwiceNext == ComangaNext \/ CM_RunAgain

TwiceSpec == TwiceInit /\ [][TwiceNext]_vars

(***************************************************************************)
(* The loops of comanga and length with the call of the counter in two     *)
(* steps, the call and its return, so that a state shows the calls in      *)
(* flight.  Both loops are plain for loops that call the counter and wait  *)
(* for what it returns; neither script starts a thread, a process or a     *)
(* pool, and neither has a setting for their number.                       *)
(***************************************************************************)
\* A loop that goes on to the next call while fewer than two are in flight.
WorkerFree_pool(in_flight) == Len(in_flight) < 2

\* The loop comes to its next call when the call before has returned.
WorkerFree(in_flight) == in_flight = <<>>

FlightInit ==
    /\ call = [fn |-> "counter", in_flight |-> <<>>]
    /\ steam = SteamInit
    /\ prog \in {"comanga", "length"}
    /\ pc = "start"
    /\ fs \in Trees(prog)
    /\ pageCounter = PageCounterInit
    /\ comanga = ComangaInit
    /\ seriesLength = SeriesLengthInit
    /\ length = LengthInit(DefaultExcludedDirs)

\* comanga: a turn of the loop over the files of a subdirectory up to the
\* call of count_pages_in_file; a file safe_file_operation turns down has
\* its turn at once.
CM_Invoke ==
    /\ prog = "comanga" /\ pc = "group"
    /\ comanga.i <= Len(comanga.files)
    /\ WorkerFree(call.in_flight)
    /\ LET file_path == comanga.files[comanga.i]
       IN  IF safe_file_operation(file_path)
           THEN /\ call' = [call EXCEPT !.in_flight = Append(@, file_path)]
                /\ UNCHANGED comanga
           ELSE /\ comanga' = CM_LoopBody(comanga, file_path)
                /\ UNCHANGED call
    /\ UNCHANGED <<steam, prog, pc, fs, pageCounter, seriesLength, length>>

\* count_pages_in_file returns or raises, and the turn is finished.
CM_Complete ==
    /\ prog = "comanga" /\ pc = "group"
    /\ call.in_flight # <<>>
    /\ comanga' = CM_LoopBody(comanga, Head(call.in_flight))
    /\ call' = [call EXCEPT !.in_flight = Tail(@)]
    /\ UNCHANGED <<steam, prog, pc, fs, pageCounter, seriesLength, length>>

\* length: a turn of the loop of analyze_videos_sequential up to the point
\* where get_video_duration opens the video; a file it turns down for its
\* size has its turn at once.
L_Invoke ==
    /\ prog = "length" /\ pc = "scan"
    /\ length.i <= Len(length.video_files)
    /\ WorkerFree(call.in_flight)
    /\ LET video_path == length.video_files[length.i]
       IN  IF Probed(video_path)
           THEN /\ call' = [call EXCEPT !.in_flight = Append(@, video_path)]
                /\ UNCHANGED length
           ELSE /\ length' = L_LoopBody(length, video_path)
                /\ UNCHANGED call
    /\ UNCHANGED <<steam, prog, pc, fs, pageCounter, comanga, seriesLength>>

\* The video is read or the error caught, and the turn is finished.
L_Complete ==
    /\ prog = "length" /\ pc = "scan"
    /\ call.in_flight # <<>>
    /\ length' = L_LoopBody(length, Head(call.in_flight))
    /\ call' = [call EXCEPT !.in_flight = Tail(@)]
    /\ UNCHANGED <<steam, prog, pc, fs, pageCounter, comanga, seriesLength>>

FlightNext ==
    \/ CM_Start \/ CM_EnterDirectory \/ CM_Invoke \/ CM_Complete
    \/ CM_LeaveDirectory \/ CM_ProcessItem \/ CM_Return \/ CM_Display
    \/ L_FindVideoFiles \/ L_Invoke \/ L_Complete \/ L_Return \/ L_SaveResults

FlightSpec == FlightInit /\ [][FlightNext]_vars

(***************************************************************************)
(* pageCounter and length on trees whose files may fail the checks made    *)
(* before a counter is called: up to MaxFaults files are unsound in some   *)
(* way, of no bytes, unreadable, smaller than 100 KB, or gone since they   *)
(* were listed.                                                            *)
(***************************************************************************)
PreCheckFaults ==
    {<<"cond", f, c>> : f \in {1, 2, 4}, c \in Conditions \ {"ok"}}

PreCheckTrees(p) ==
    {ApplyFaults(BaseFS(p), xs, p) : xs \in [1..MaxFaults -> PreCheckFaults \cup {NoFault}]}

PreCheckInit ==
    /\ call = NoCall
    /\ steam = SteamInit
    /\ prog \in {"pageCounter", "length"}
    /\ pc = "start"
    /\ fs \in PreCheckTrees(prog)
    /\ pageCounter = PageCounterInit
    /\ comanga = ComangaInit
    /\ seriesLength = SeriesLengthInit
    /\ length = LengthInit(DefaultExcludedDirs)

PreCheckNext == PageCounterNext \/ LengthNext

PreCheckSpec == PreCheckInit /\ [][PreCheckNext]_vars

(***************************************************************************)
(* The durations seriesLength adds up are floats (clip.duration), and      *)
(* total_duration += duration is the addition of IEEE 754 doubles: the     *)
(* exact sum rounded to 53 bits, to the even one of two that are as near.  *)
(* A positive double is its 53 bits, the highest first and set, and the    *)
(* exponent of its last bit; zero has no bits.                             *)
(***************************************************************************)
FloatZero == [bits |-> <<>>, exp |-> 0]

\* The double nearest to 0.1, 0x1.999999999999ap-4.
Tenth ==
    [bits |-> << 1, 1, 0, 0, 1, 1, 0, 0, 1, 1, 0, 0, 1, 1, 0, 0, 1, 1, 0, 0, 1, 1, 0, 0, 1, 1, 0,
                 0, 1, 1, 0, 0, 1, 1, 0, 0, 1, 1, 0, 0, 1, 1, 0, 0, 1, 1, 0, 0, 1, 1, 0, 1, 0 >>,
     exp  |-> -56]

\* The double nearest to 0.2, 0x1.999999999999ap-3.
Fifth ==
    [bits |-> << 1, 1, 0, 0, 1, 1, 0, 0, 1, 1, 0, 0, 1, 1, 0, 0, 1, 1, 0, 0, 1, 1, 0, 0, 1, 1, 0,
                 0, 1, 1, 0, 0, 1, 1, 0, 0, 1, 1, 0, 0, 1, 1, 0, 0, 1, 1, 0, 0, 1, 1, 0, 1, 0 >>,
     exp  |-> -55]

\* The double nearest to 0.3, 0x1.3333333333333p-2.
ThreeTenths ==
    [bits |-> << 1, 0, 0, 1, 1, 0, 0, 1, 1, 0, 0, 1, 1, 0, 0, 1, 1, 0, 0, 1, 1, 0, 0, 1, 1, 0, 0,
                 1, 1, 0, 0, 1, 1, 0, 0, 1, 1, 0, 0, 1, 1, 0, 0, 1, 1, 0, 0, 1, 1, 0, 0, 1, 1 >>,
     exp  |-> -54]

\* The double nearest to 0.7, 0x1.6666666666666p-1.
SevenTenths ==
    [bits |-> << 1, 0, 1, 1, 0, 0, 1, 1, 0, 0, 1, 1, 0, 0, 1, 1, 0, 0, 1, 1, 0, 0, 1, 1, 0, 0, 1,
                 1, 0, 0, 1, 1, 0, 0, 1, 1, 0, 0, 1, 1, 0, 0, 1, 1, 0, 0, 1, 1, 0, 0, 1, 1, 0 >>,
     exp  |-> -53]

Zeros(n) == [k \in 1..n |-> 0]

\* The sum of two rows of bits of one length and a carry, highest bit first.
AddBits(a, b, carry) ==
    LET n == Len(a)
        CarryInto(k) ==
            IF \/ \E j \in (k + 1)..n :
                     /\ a[j] + b[j] = 2
                     /\ \A i \in (k + 1)..(j - 1) : a[i] + b[i] = 1
               \/ carry = 1 /\ \A i \in (k + 1)..n : a[i] + b[i] >= 1
            THEN 1 ELSE 0
        low == [k \in 1..n |-> (a[k] + b[k] + CarryInto(k)) % 2]
    IN  IF CarryInto(0) = 1 THEN <<1>> \o low ELSE low

\* The exact sum [bits, exp] brought to 53 bits.
RoundTo53(bits, exp) ==
    IF Len(bits) <= 53
    THEN [bits |-> bits \o Zeros(53 - Len(bits)), exp |-> exp - (53 - Len(bits))]
    ELSE LET kept  == SubSeq(bits, 1, 53)
             rest  == SubSeq(bits, 54, Len(bits))
             more  == \E k \in 2..Len(rest) : rest[k] = 1
             up    == rest[1] = 1 /\ (more \/ kept[53] = 1)
             next  == AddBits(kept, Zeros(53), 1)
             e     == exp + Len(rest)
         IN  IF ~up THEN [bits |-> kept, exp |-> e]
             ELSE IF Len(next) = 53 THEN [bits |-> next, exp |-> e]
             ELSE [bits |-> SubSeq(next, 1, 53), exp |-> e + 1]

\* x + y for doubles x, y >= 0.
FloatAdd(x, y) ==
    IF x.bits = <<>> THEN y
    ELSE IF y.bits = <<>> THEN x
    ELSE LET low == IF x.exp < y.exp THEN x.exp ELSE y.exp
             a   == x.bits \o Zeros(x.exp - low)
             b   == y.bits \o Zeros(y.exp - low)
             n   == IF Len(a) > Len(b) THEN Len(a) ELSE Len(b)
         IN  RoundTo53(AddBits(Zeros(n - Len(a)) \o a, Zeros(n - Len(b)) \o b, 0), low)

(***************************************************************************)
(* The loop of get_series_durations over the videos of one series, run on  *)
(* the same videos in two orders: up to MaxVideos videos, each with the    *)
(* duration get_video_duration returns for it (0 for one that fails), and  *)
(* a second run that meets them in a permutation of the first one's order. *)
(***************************************************************************)
MaxVideos == 3

ClipDurations == {FloatZero, Tenth, Fifth, SevenTenths}

\* total_duration = 0 before the loop.
SeriesRun(durations) == [durations |-> durations, i |-> 1, total_duration |-> FloatZero]

\* duration = get_video_duration(video_file); total_duration += duration
SL_Accumulate(st) ==
    [st EXCEPT !.total_duration = FloatAdd(@, st.durations[st.i]), !.i = @ + 1]

OrderInit ==
    /\ \E n \in 1..MaxVideos :
         \E ds \in [1..n -> ClipDurations] :
           \E p \in {q \in [1..n -> 1..n] : \A k \in 1..n : \E m \in 1..n : q[m] = k} :
             call = [fn |-> "get_series_durations",
                     runs |-> <<SeriesRun(ds), SeriesRun([k \in 1..n |-> ds[p[k]]])>>]
    /\ steam = SteamInit
    /\ prog = "seriesLength"
    /\ pc = "group"
    /\ fs = BaseFS("seriesLength")
    /\ pageCounter = PageCounterInit
    /\ comanga = ComangaInit
    /\ seriesLength = SeriesLengthInit
    /\ length = LengthInit(DefaultExcludedDirs)

\* One turn of the loop in one of the two runs.
SL_AddDuration ==
    /\ call.fn = "get_series_durations"
    /\ \E r \in 1..2 :
         /\ call.runs[r].i <= Len(call.runs[r].durations)
         /\ call' = [call EXCEPT !.runs[r] = SL_Accumulate(@)]
    /\ UNCHANGED <<steam, prog, pc, fs, pageCounter, comanga, seriesLength, length>>

OrderNext == SL_AddDuration

OrderSpec == OrderInit /\ [][OrderNext]_vars

(***************************************************************************)
(* convert_doc_to_docx of doc2docx.py on up to MaxDocFiles .doc files.     *)
(* What the converters meet is chosen as they are called: Word opens and   *)
(* saves a document or raises, LibreOffice is missing, fails, raises or    *)
(* converts, and Quit returns or raises.  A KeyboardInterrupt can arrive   *)
(* inside either converter or inside progress.update(); no except clause   *)
(* of the loop catches it.                                                 *)
(***************************************************************************)
MaxDocFiles == 3

DispatchResults == {"ok", "Dispatch raises", "Visible raises"}

WordResults == {"ok", "raises"}

LibreOfficeResults == {"ok", "failed", "missing", "raises"}

QuitResults == {"ok", "Exception", "KeyboardInterrupt"}

StopPoints == {"none", "word", "libreoffice", "update"}

NoApp == "None"

\* The locals of convert_doc_to_docx before Word is looked for.
Doc2DocxInit(n, windows, win32) ==
    [fn |-> "convert_doc_to_docx", PLATFORM_WINDOWS |-> windows, WIN32_AVAILABLE |-> win32,
     doc_files |-> [k \in 1..n |-> k], word_app |-> NoApp, i |-> 1, converted_count |-> 0,
     failed_logged |-> 0, files |-> <<>>, progress |-> ProgressReporter(n),
     escaping |-> "none", quits |-> 0, quit_result |-> "none", failed_count |-> 0]

\* win32.Dispatch("Word.Application") and word_app.Visible = False: the name
\* is bound as soon as Dispatch has returned.
InitWord(st, dispatch) ==
    IF st.PLATFORM_WINDOWS /\ st.WIN32_AVAILABLE /\ dispatch # "Dispatch raises"
    THEN [st EXCEPT !.word_app = "Word.Application"] ELSE st

\* convert_with_word: False without win32com, False when Word raises.
convert_with_word(st, word) == st.WIN32_AVAILABLE /\ word = "ok"

\* convert_with_libreoffice: True only for a conversion that returns 0.
convert_with_libreoffice(libre) == libre = "ok"

\* "if not success" once every file is handed to LibreOffice as well.
FallBack_always(success) == TRUE

\* if not success: success = convert_with_libreoffice(...)
FallBack(success) == ~success

\* One turn of the loop over doc_files, up to the point an interrupt stops
\* it at ("none": the turn is gone through).
DX_LoopBody(st, word, libre, stop) ==
    LET use_word      == st.word_app # NoApp
        word_success  == use_word /\ stop # "word" /\ convert_with_word(st, word)
        use_libre     == stop # "word" /\ FallBack(word_success)
        libre_success == use_libre /\ stop # "libreoffice" /\ convert_with_libreoffice(libre)
        success       == word_success \/ libre_success
        decided       == stop \in {"none", "update"}
        file == [tried   |-> (IF use_word THEN <<"word">> ELSE <<>>)
                               \o (IF use_libre THEN <<"libreoffice">> ELSE <<>>),
                 word    |-> IF ~use_word THEN "untried"
                             ELSE IF stop = "word" THEN "interrupted"
                             ELSE IF word_success THEN "success" ELSE "failure",
                 libre   |-> IF ~use_libre THEN "untried"
                             ELSE IF stop = "libreoffice" THEN "interrupted"
                             ELSE IF libre_success THEN "success" ELSE "failure",
                 counted |-> decided /\ success,
                 logged_failed |-> decided /\ ~success]
    IN  [st EXCEPT !.files = Append(@, file),
                   !.converted_count = IF file.counted THEN @ + 1 ELSE @,
                   !.failed_logged = IF file.logged_failed THEN @ + 1 ELSE @,
                   !.progress = IF stop = "none" THEN Update(@) ELSE @,
                   !.i = IF stop = "none" THEN @ + 1 ELSE @,
                   !.escaping = IF stop = "none" THEN "none" ELSE "KeyboardInterrupt"]

\* except: with no class named catches whatever is raised.
BareExcept(raised) == TRUE

\* A finally clause that closes Word only when the loop has come to its end.
Finally_afterLoopOnly(st, quit) ==
    IF st.word_app # NoApp /\ st.escaping = "none"
    THEN [st EXCEPT !.quits = @ + 1, !.quit_result = quit,
                    !.escaping = IF quit # "ok" /\ ~BareExcept(quit) THEN quit ELSE @]
    ELSE st

\* The finally clause: Quit on a Word that was bound; what Quit raises goes
\* to the except clause around it.
Finally(st, quit) ==
    IF st.word_app # NoApp
    THEN [st EXCEPT !.quits = @ + 1, !.quit_result = quit,
                    !.escaping = IF quit # "ok" /\ ~BareExcept(quit) THEN quit ELSE @]
    ELSE st

Doc2DocxSpecInit ==
    /\ \E n \in 0..MaxDocFiles, windows \in BOOLEAN, win32 \in BOOLEAN :
         /\ win32 => windows
         /\ call = Doc2DocxInit(n, windows, win32)
    /\ steam = SteamInit
    /\ prog = "doc2docx"
    /\ pc = "start"
    /\ fs = BaseFS("length")
    /\ pageCounter = PageCounterInit
    /\ comanga = ComangaInit
    /\ seriesLength = SeriesLengthInit
    /\ length = LengthInit(DefaultExcludedDirs)

\* convert_doc_to_docx up to its loop: it returns when there is no .doc file,
\* and looks for Word otherwise.
DX_Start ==
    /\ prog = "doc2docx" /\ pc = "start"
    /\ IF call.doc_files = <<>>
       THEN /\ pc' = "done"
            /\ UNCHANGED call
       ELSE /\ \E dispatch \in DispatchResults : call' = InitWord(call, dispatch)
            /\ pc' = "loop"
    /\ UNCHANGED <<steam, prog, fs, pageCounter, comanga, seriesLength, length>>

\* One turn of the loop; the loop is left at its end or with the interrupt.
DX_Convert ==
    /\ prog = "doc2docx" /\ pc = "loop"
    /\ call.i <= Len(call.doc_files)
    /\ \E word \in WordResults, libre \in LibreOfficeResults, stop \in StopPoints :
         /\ stop = "word" => call.word_app # NoApp
         /\ stop = "libreoffice" =>
                ~(call.word_app # NoApp /\ convert_with_word(call, word))
         /\ call' = DX_LoopBody(call, word, libre, stop)
         /\ pc' = IF stop = "none" /\ call.i < Len(call.doc_files) THEN "loop" ELSE "finally"
    /\ UNCHANGED <<steam, prog, fs, pageCounter, comanga, seriesLength, length>>

\* The finally clause; what left the loop goes on after it.
DX_Finally ==
    /\ prog = "doc2docx" /\ pc = "finally"
    /\ \E quit \in QuitResults : call' = Finally(call, quit)
    /\ pc' = IF call'.escaping = "none" THEN "summary" ELSE "raised"
    /\ UNCHANGED <<steam, prog, fs, pageCounter, comanga, seriesLength, length>>

\* The summary after the loop.
DX_Summary ==
    /\ prog = "doc2docx" /\ pc = "summary"
    /\ call' = [call EXCEPT !.failed_count =
                   IF call.converted_count < Len(call.doc_files)
                   THEN Len(call.doc_files) - call.converted_count ELSE 0]
    /\ pc' = "done"
    /\ UNCHANGED <<steam, prog, fs, pageCounter, comanga, seriesLength, length>>

Doc2DocxNext == DX_Start \/ DX_Convert \/ DX_Finally \/ DX_Summary

Doc2DocxSpec == Doc2DocxSpecInit /\ [][Doc2DocxNext]_vars

(***************************************************************************)
(* The formatting functions, each called once on an argument of a bounded  *)
(* set.                                                                    *)
(***************************************************************************)
\* Every duration up to MaxSeconds, and the first and the last second of
\* every hour up to MaxHours.
MaxSeconds == 7300
MaxHours == 1000
Seconds ==
    (0..MaxSeconds) \cup {h * 3600 + r : h \in 0..MaxHours, r \in {0, 3599}}

\* Sizes of six digits of base 1024, the highest at most MaxTopLimb so that
\* the size stays below 2^53: they run from 0 B to more than 1024 TB.
MaxTopLimb == 2
LimbValues == {0, 1, 256, 512, 1023}
Sizes == {low \o <<top>> : low \in [1..5 -> LimbValues], top \in 0..MaxTopLimb}

FormatCalls ==
    {[fn |-> "format_duration", arg |-> s, done |-> FALSE, result |-> <<>>] :
        s \in Seconds}
      \cup {[fn |-> "format_file_size", arg |-> n, done |-> FALSE, result |-> <<>>] :
               n \in Sizes}

FormatInit ==
    /\ call \in FormatCalls
    /\ steam = SteamInit
    /\ prog = "shared_utils"
    /\ pc = "call"
    /\ fs = BaseFS("length")
    /\ pageCounter = PageCounterInit
    /\ comanga = ComangaInit
    /\ seriesLength = SeriesLengthInit
    /\ length = LengthInit(DefaultExcludedDirs)

Call_format_duration ==
    /\ pc = "call" /\ call.fn = "format_duration"
    /\ call' = [call EXCEPT !.result = format_duration(call.arg), !.done = TRUE]
    /\ pc' = "returned"
    /\ UNCHANGED <<steam, prog, fs, pageCounter, comanga, seriesLength, length>>

Call_format_file_size ==
    /\ pc = "call" /\ call.fn = "format_file_size"
    /\ call' = [call EXCEPT !.result = format_file_size(call.arg), !.done = TRUE]
    /\ pc' = "returned"
    /\ UNCHANGED <<steam, prog, fs, pageCounter, comanga, seriesLength, length>>

FormatNext == Call_format_duration \/ Call_format_file_size

FormatSpec == FormatInit /\ [][FormatNext]_vars

(***************************************************************************)
(* analyze_steam_library of steamSorter.py on up to MaxLibraries Steam     *)
(* IDs.  What the Steam API and HowLongToBeat answer is chosen at each     *)
(* call.                                                                   *)
(***************************************************************************)
MaxLibraries == 2
GameNames == {"Doom", "Portal", "Quake"}
Libraries == UNION {[1..n -> GameNames] : n \in 0..2}

Answers ==
    {[kind |-> "RequestException"], [kind |-> "ValueError"],
     [kind |-> "json", data |-> <<>>],
     [kind |-> "json", data |-> [response |-> <<>>]],
     [kind |-> "json", data |-> [response |-> [game_count |-> 0]]]}
      \cup {[kind |-> "json", data |-> [response |-> [games |-> games_list]]] :
               games_list \in Libraries}

Searches ==
    {[kind |-> "raises"], [kind |-> "returns", results |-> <<>>],
     [kind |-> "returns", results |-> <<[main_story |-> 0]>>],
     [kind |-> "returns", results |-> <<[main_story |-> 5]>>]}

SteamSorterInit ==
    /\ call = NoCall
    /\ \E n \in 1..MaxLibraries :
          steam = [SteamInit EXCEPT !.steam_ids = [k \in 1..n |-> k]]
    /\ prog = "steamSorter"
    /\ pc = "library"
    /\ fs = BaseFS("length")
    /\ pageCounter = PageCounterInit
    /\ comanga = ComangaInit
    /\ seriesLength = SeriesLengthInit
    /\ length = LengthInit(DefaultExcludedDirs)

\* The head of the loop over steam_ids: the library is fetched.
ST_Library ==
    /\ prog = "steamSorter" /\ pc = "library"
    /\ steam.i <= Len(steam.steam_ids)
    /\ \E answer \in Answers :
          LET games_data == get_owned_games(answer)
          IN  IF NoGamesData(games_data)
              THEN /\ steam' = [steam EXCEPT !.i = @ + 1,
                                             !.answers = Append(@, answer)]
                   /\ pc' = "library"
              ELSE /\ steam' = [steam EXCEPT !.games_list = games_data.value.games,
                                             !.j = 1,
                                             !.answers = Append(@, answer)]
                   /\ pc' = "game"
    /\ UNCHANGED <<call, prog, fs, pageCounter, comanga, seriesLength, length>>

\* One game of the library.
ST_Game ==
    /\ prog = "steamSorter" /\ pc = "game"
    /\ steam.j <= Len(steam.games_list)
    /\ \E search \in Searches : steam' = GameBody(steam, search)
    /\ UNCHANGED <<call, prog, pc, fs, pageCounter, comanga, seriesLength, length>>

\* The games of the library are through.
ST_EndOfLibrary ==
    /\ prog = "steamSorter" /\ pc = "game"
    /\ steam.j > Len(steam.games_list)
    /\ steam' = [steam EXCEPT !.i = @ + 1]
    /\ pc' = "library"
    /\ UNCHANGED <<call, prog, fs, pageCounter, comanga, seriesLength, length>>

\* return games_completion_times
ST_Return ==
    /\ prog = "steamSorter" /\ pc = "library"
    /\ steam.i > Len(steam.steam_ids)
    /\ pc' = "returned"
    /\ UNCHANGED <<others, prog, fs, pageCounter, comanga, seriesLength, length>>

SteamSorterNext == ST_Library \/ ST_Game \/ ST_EndOfLibrary \/ ST_Return

SteamSorterSpec == SteamSorterInit /\ [][SteamSorterNext]_vars

(***************************************************************************)
(* The runs of Spec and those in which the operator interrupts a script    *)
(* that does not catch it.  KeyboardInterrupt is no Exception: the         *)
(* handlers of the loops of pageCounter, comanga and seriesLength let it   *)
(* through, no caller catches it, and the script ends where it stands.     *)
(***************************************************************************)
PC_Interrupt ==
    /\ prog = "pageCounter" /\ pc = "scan"
    /\ pageCounter.i <= Len(pageCounter.files)
    /\ pc' = "interrupted"
    /\ UNCHANGED <<others, prog, fs, pageCounter, comanga, seriesLength, length>>

CM_Interrupt ==
    /\ prog = "comanga" /\ pc \in {"scan", "group"}
    /\ IF pc = "group" THEN comanga.i <= Len(comanga.files)
       ELSE comanga.k <= Len(comanga.items)
    /\ pc' = "interrupted"
    /\ UNCHANGED <<others, prog, fs, pageCounter, comanga, seriesLength, length>>

SL_Interrupt ==
    /\ prog = "seriesLength" /\ pc \in {"scan", "group"}
    /\ IF pc = "group" THEN seriesLength.i <= Len(seriesLength.video_files)
       ELSE seriesLength.k <= Len(seriesLength.items)
    /\ pc' = "interrupted"
    /\ UNCHANGED <<others, prog, fs, pageCounter, comanga, seriesLength, length>>

\* The status a script has ended with: 0 when it came to its end, 1 after
\* sys.exit(1) and after an exception that nothing caught.
ExitStatus(position) ==
    CASE position = "done" -> "0"
      [] position \in {"exit1", "crashed"} -> "1"
      [] OTHER -> "running"

(***************************************************************************)
(* The runs of Spec, the runs on a path that is no directory and the runs  *)
(* that cannot write their report.                                         *)
(***************************************************************************)
EnvInit ==
    /\ call = NoCall
    /\ steam = SteamInit
    /\ prog \in Programs
    /\ pc = "start"
    /\ fs \in EnvTrees(prog)
    /\ pageCounter = PageCounterInit
    /\ comanga = ComangaInit
    /\ seriesLength = SeriesLengthInit
    /\ \E excluded_dirs \in ExcludeArguments :
         length = LengthInit(IF prog = "length" THEN excluded_dirs ELSE DefaultExcludedDirs)

EnvSpec == EnvInit /\ [][Next]_vars

InterruptNext == Next \/ PC_Interrupt \/ CM_Interrupt \/ SL_Interrupt

InterruptSpec == Init /\ [][InterruptNext]_vars

(***************************************************************************)
(* Properties.                                                             *)
(***************************************************************************)
\* How often a key is the first component of the pairs of a list.
Occurrences(pairs, key) == Cardinality({j \in 1..Len(pairs) : pairs[j][1] = key})

Fails(f) == fs.cond[f] # "ok"

\* C2: a file that fails is turned into a failure of that file alone.  The
\* turn of the loop that meets it goes on to the next file and leaves what was
\* recorded for the files before it as it was; and after the scan every file
\* has the outcome its own state gives it, whatever the other files did.
C2_FailureStep ==
    /\ (/\ prog = "pageCounter" /\ pc = "scan"
        /\ pageCounter.i <= Len(pageCounter.files)
        /\ Fails(pageCounter.files[pageCounter.i])
        /\ pageCounter' # pageCounter) =>
          /\ pc' = "scan"
          /\ pageCounter'.i = pageCounter.i + 1
          /\ pageCounter'.files = pageCounter.files
          /\ pageCounter'.files_with_pages = pageCounter.files_with_pages
          /\ Len(pageCounter'.error_files) = Len(pageCounter.error_files) + 1
          /\ SubSeq(pageCounter'.error_files, 1, Len(pageCounter.error_files))
                = pageCounter.error_files
    /\ (/\ prog = "comanga" /\ pc = "group"
        /\ comanga.i <= Len(comanga.files)
        /\ Fails(comanga.files[comanga.i])
        /\ comanga' # comanga) =>
          /\ pc' = "group"
          /\ comanga'.i = comanga.i + 1
          /\ comanga'.files = comanga.files
          /\ comanga'.total_pages = comanga.total_pages
          /\ comanga'.results = comanga.results
    /\ (/\ prog = "comanga" /\ pc = "scan"
        /\ comanga.k <= Len(comanga.items)
        /\ IsFile(comanga.items[comanga.k])
        /\ Fails(comanga.items[comanga.k])
        /\ comanga' # comanga) =>
          /\ pc' = "scan"
          /\ comanga'.k = comanga.k + 1
          /\ comanga'.items = comanga.items
          /\ SubSeq(comanga'.results, 1, Len(comanga.results)) = comanga.results

C2_OwnOutcome ==
    /\ (prog = "pageCounter" /\ pc # "start") =>
          LET st == pageCounter
          IN  /\ \A j \in 1..(st.i - 1) :
                    LET f == st.files[j]
                    IN  IF Fails(f)
                        THEN /\ Occurrences(st.error_files, fs.name[f]) = 1
                             /\ Occurrences(st.files_with_pages, fs.name[f]) = 0
                        ELSE \E n \in 1..Len(st.files_with_pages) :
                                st.files_with_pages[n] = <<fs.name[f], fs.units[f]>>
              /\ pc \in {"display", "done"} => st.i - 1 = Len(st.files)
    /\ (prog = "comanga" /\ pc \in {"scan", "group", "display", "done"}) =>
          LET st == comanga
          IN  /\ \A n \in 1..(st.k - 1) :
                    LET item == st.items[n]
                    IN  (IsFile(item) /\ Occurrences(st.results, fs.name[item]) = 1) =>
                           \E m \in 1..Len(st.results) :
                              st.results[m] = <<fs.name[item],
                                                IF Fails(item) THEN 0 ELSE fs.units[item]>>
              /\ pc \in {"display", "done"} => st.k - 1 = Len(st.items)
              /\ pc = "group" => st.i - 1 <= Len(st.files)

SoundUpTo(files, n) == {j \in 1..n : ~Fails(files[j])}

RECURSIVE UnitsUpTo(_, _)
UnitsUpTo(files, n) ==
    IF n = 0 THEN 0
    ELSE UnitsUpTo(files, n - 1) + (IF Fails(files[n]) THEN 0 ELSE fs.units[files[n]])

RECURSIVE IsUnder(_, _)
IsUnder(n, d) == n # Root /\ (Parent(n) = d \/ IsUnder(Parent(n), d))

\* A walk from top reaches n: n is there, and so is every directory from top
\* down to the one that holds n, each of them listable and each but top with a
\* name outside the exclusion set.
Reached(n, top, exclusion) ==
    /\ IsUnder(n, top)
    /\ fs.present[n]
    /\ \A a \in Dirs :
          (IsUnder(n, a) /\ (a = top \/ IsUnder(a, top))) =>
             /\ fs.present[a]
             /\ fs.listable[a]
             /\ a # top => fs.name[a] \notin exclusion

\* The name ends, after at least one other character, with the extension in
\* any mix of cases.
EndsWith(name, extension) ==
    /\ Len(name) > Len(extension)
    /\ \A k \in 1..Len(extension) :
          LowerChar(name[Len(name) - Len(extension) + k]) = extension[k]

HasExtension(n, extensions) == \E e \in extensions : EndsWith(fs.name[n], e)

\* The files a walk from top is to return.
Candidates(top, extensions, exclusion) ==
    {f \in Files : Reached(f, top, exclusion) /\ HasExtension(f, extensions)}

\* The units of the files of a set that did not fail.
RECURSIVE SoundUnits(_)
SoundUnits(S) ==
    IF S = {} THEN 0
    ELSE LET f == CHOOSE x \in S : TRUE
         IN  (IF Fails(f) THEN 0 ELSE fs.units[f]) + SoundUnits(S \ {f})

\* The entries of the root a script makes a key of its result.
ComangaKeys ==
    {n \in Nodes : n # Root /\ Parent(n) = Root /\ fs.present[n]
                     /\ (IsDir(n) \/ HasExtension(n, ComangaExtensions))}

SeriesKeys ==
    {n \in Dirs : n # Root /\ Parent(n) = Root /\ fs.present[n]
                    /\ fs.name[n] \notin DefaultExcludedDirs}

RECURSIVE TotalOf(_)
TotalOf(pairs) ==
    IF Len(pairs) = 0 THEN 0
    ELSE TotalOf(SubSeq(pairs, 1, Len(pairs) - 1)) + pairs[Len(pairs)][2]

\* The files a scan of the script is to find.
PageCounterCandidates ==
    {f \in Files : Parent(f) = Root /\ fs.present[f] /\ fs.listable[Root]
                     /\ HasExtension(f, PageCounterExtensions)}

ComangaCandidates ==
    {f \in Files : \E n \in ComangaKeys :
                      IF IsDir(n) THEN f \in Candidates(n, ComangaExtensions, {}) ELSE f = n}

Range(seq) == {seq[j] : j \in 1..Len(seq)}

\* The directories between top and n, top left out, n's own directory in.
Between(n, top) == {a \in Dirs : IsUnder(n, a) /\ IsUnder(a, top)}

\* C7: a recursive discovery returns no file that has, at whatever depth below
\* the directory it started from, a directory with a name of the exclusion set
\* above it.  The name of the starting directory and the names of files are
\* not matched: the files of a root with such a name are returned.
C7_ExcludedNeverDescended ==
    /\ (prog = "length" /\ pc # "start") =>
          /\ \A f \in Range(length.video_files) :
                \A a \in Between(f, Root) : fs.name[a] \notin length.excluded_dirs
          /\ \A f \in Files :
                (Parent(f) = Root /\ fs.present[f] /\ fs.listable[Root]
                    /\ HasExtension(f, VideoExtensions)) =>
                   f \in Range(length.video_files)
    /\ (prog = "seriesLength" /\ pc = "group") =>
          \A f \in Range(seriesLength.video_files) :
             \A a \in Between(f, Root) : fs.name[a] \notin DefaultExcludedDirs

\* length has found the video of seriesX and left out the one of Subs, two
\* levels down.
C7_Witness ==
    /\ prog = "length" /\ pc = "scan"
    /\ fs.present[5] /\ fs.listable[5] /\ fs.name[5] = Subs
    /\ fs.present[6] /\ HasExtension(6, VideoExtensions)
    /\ 4 \in Range(length.video_files)
    /\ 6 \notin Range(length.video_files)

\* The tree of the scenario: a.cbz of 3 pages, b.cbr of 5 and seriesX with
\* c.cbz of 2.
ScenarioTree ==
    /\ {n \in Nodes : fs.present[n] /\ \A a \in Dirs : IsUnder(n, a) => fs.present[a]}
          = {0, 1, 2, 3, 4}
    /\ fs.name[1] = <<"a">> \o cbz /\ fs.name[2] = <<"b">> \o cbr
    /\ fs.name[3] = seriesX /\ fs.name[4] = <<"c">> \o cbz
    /\ \A f \in {1, 2, 4} : fs.cond[f] = "ok"
    /\ fs.units[1] = 3 /\ fs.units[2] = 5 /\ fs.units[4] = 2
    /\ fs.listable[0] /\ fs.listable[3]

C9_ReturnedIffMatching ==
    /\ (prog = "length" /\ pc # "start") =>
          /\ Range(length.video_files)
                = Candidates(Root, VideoExtensions, length.excluded_dirs)
          /\ Cardinality(Range(length.video_files)) = Len(length.video_files)
    /\ (prog = "pageCounter" /\ pc # "start") =>
          /\ Range(pageCounter.files) = PageCounterCandidates
          /\ Cardinality(Range(pageCounter.files)) = Len(pageCounter.files)
          /\ \A m \in 1..Len(pageCounter.error_files) :
                \E f \in PageCounterCandidates :
                   fs.name[f] = pageCounter.error_files[m][1]
    /\ (prog = "comanga" /\ pc = "group") =>
          Range(comanga.files)
             = Candidates(comanga.items[comanga.k], ComangaExtensions, {})
    /\ (prog = "seriesLength" /\ pc = "group") =>
          Range(seriesLength.video_files)
             = Candidates(seriesLength.items[seriesLength.k], VideoExtensions,
                          DefaultExcludedDirs)

\* length has found a video whose suffix is written in capitals, next to a
\* file of another suffix that it left out.
C9_Witness ==
    /\ prog = "length" /\ pc = "scan"
    /\ \E f \in Range(length.video_files) : Suffix(fs.name[f]) \notin VideoExtensions
    /\ \E f \in Files :
          fs.present[f] /\ Parent(f) = Root /\ ~HasExtension(f, VideoExtensions)

\* The directories a walk from top comes to and cannot list.
Unlistable(top, exclusion) ==
    {d \in Dirs : /\ ~fs.listable[d] /\ fs.present[d]
                  /\ (d = top \/ (Reached(d, top, exclusion)
                                    /\ fs.name[d] \notin exclusion))}

\* C10: a directory that cannot be listed costs the discovery the files under
\* it and no others: every matching file that a walk reaches through
\* directories it can list is returned, and the discovery returns a list,
\* empty when the starting directory is the one that cannot be listed.
C10_UnlistableSubtreeSkipped ==
    /\ (prog = "length" /\ pc # "start") =>
          \A d \in Unlistable(Root, length.excluded_dirs) :
             /\ \A f \in Range(length.video_files) : ~IsUnder(f, d)
             /\ \A f \in Candidates(Root, VideoExtensions, length.excluded_dirs) :
                   ~IsUnder(f, d) /\ f \in Range(length.video_files)
    /\ (prog = "pageCounter" /\ pc # "start" /\ ~fs.listable[Root]) =>
          pageCounter.files = <<>>
    /\ (prog = "comanga" /\ pc = "group") =>
          \A d \in Unlistable(comanga.items[comanga.k], {}) :
             /\ \A f \in Range(comanga.files) : ~IsUnder(f, d)
             /\ \A f \in Candidates(comanga.items[comanga.k], ComangaExtensions, {}) :
                   f \in Range(comanga.files)

\* length has come to seriesX, could not list it, and has found the video of
\* the directory after it.
C10_Witness ==
    /\ prog = "length" /\ pc = "scan"
    /\ 3 \in Unlistable(Root, length.excluded_dirs)
    /\ fs.present[4]
    /\ 8 \in Range(length.video_files)
    /\ 4 \notin Range(length.video_files)

\* The files a loop has been through.
Dispatched(st) == {st.files[j] : j \in 1..(st.i - 1)}

\* C11 as claimed: a file whose suffix has no counter, once dispatched, is
\* recorded as a failure for its format and not as a success: pageCounter
\* has it in error_files and not in files_with_pages, and comanga counts it
\* neither in file_count nor in total_pages.
C11_UnsupportedIsFailure ==
    /\ prog = "pageCounter" =>
          \A f \in Dispatched(pageCounter) :
             (~Fails(f) /\ ~HasExtension(f, PageCounterExtensions)) =>
                /\ <<fs.name[f], "Unsupported file format">> \in Range(pageCounter.error_files)
                /\ Occurrences(pageCounter.files_with_pages, fs.name[f]) = 0
    /\ prog = "comanga" =>
          comanga.file_count
             = Cardinality({f \in Dispatched(comanga) :
                               ~Fails(f) /\ HasExtension(f, ComangaExtensions)})

\* comanga has been handed a sound file of a suffix with no counter and has
\* counted it as a file of 0 pages.
C11_Witness ==
    /\ prog = "comanga" /\ pc = "dispatch"
    /\ comanga.i = 2
    /\ ~Fails(comanga.files[1]) /\ ~HasExtension(comanga.files[1], ComangaExtensions)
    /\ comanga.file_count = 1 /\ comanga.total_pages = 0

\* A file of no bytes.
Empty(f) == fs.cond[f] = "empty"

\* The videos length has been through, and those of them it cannot time.
Analyzed == {length.video_files[j] : j \in 1..(length.i - 1)}

Untimed(f) == Fails(f) \/ fs.units[f] = 0

C13_InterruptStillReports ==
    /\ (prog = "length" /\ length.interrupted /\ pc = "done") =>
          /\ length.report.shown
          /\ length.report.total_items = length.processed_count
          /\ length.report.total_count = TotalOf(length.report.lines)
    /\ (prog = "comanga" /\ pc = "interrupted") =>
          /\ comanga.report.shown
          /\ comanga.report.total_count = TotalOf(comanga.results)
    /\ (prog = "pageCounter" /\ pc = "interrupted") =>
          /\ pageCounter.report.shown
          /\ pageCounter.report.total_count = TotalOf(pageCounter.files_with_pages)

\* comanga was interrupted in the group seriesX with one of its two files
\* through and two entries in results, and has ended without a report.
C13_Witness ==
    /\ prog = "comanga" /\ pc = "interrupted"
    /\ Len(comanga.files) = 2 /\ comanga.i = 2
    /\ Len(comanga.results) = 2
    /\ ~comanga.report.shown

ReasonOf(f) ==
    IF fs.cond[f] \in {"empty", "denied"} THEN "File access error"
    ELSE "Error processing file"

PlaceIn(pairs, x) == CHOOSE j \in 1..Len(pairs) : pairs[j] = x

\* The list ranked holds the pairs of the list inserted, each once, in
\* ascending order of their counts, and pairs of one count in the order they
\* have in inserted.
RankedStably(ranked, inserted) ==
    /\ Len(ranked) = Len(inserted)
    /\ Range(ranked) = Range(inserted)
    /\ \A a, b \in 1..Len(ranked) :
          a < b =>
             /\ ranked[a][2] <= ranked[b][2]
             /\ ranked[a][2] = ranked[b][2] =>
                   PlaceIn(inserted, ranked[a]) < PlaceIn(inserted, ranked[b])

DigitValue ==
    ("0" :> 0) @@ ("1" :> 1) @@ ("2" :> 2) @@ ("3" :> 3) @@ ("4" :> 4) @@
    ("5" :> 5) @@ ("6" :> 6) @@ ("7" :> 7) @@ ("8" :> 8) @@ ("9" :> 9)

RECURSIVE NumeralValue(_)
NumeralValue(ds) ==
    IF ds = <<>> THEN 0
    ELSE NumeralValue(SubSeq(ds, 1, Len(ds) - 1)) * 10 + DigitValue[ds[Len(ds)]]

IsNumeral(ds) == ds # <<>> /\ \A i \in 1..Len(ds) : ds[i] \in DOMAIN DigitValue

\* The text is hours:minutes:seconds for the duration s: three numerals, the
\* last two of two digits, the first of at least two and of no more than its
\* value needs, whose values are s div 3600, (s mod 3600) div 60 and s mod 60.
IsClockOf(text, s) ==
    LET colons == {i \in 1..Len(text) : text[i] = ":"}
    IN  /\ Cardinality(colons) = 2
        /\ LET c1 == CHOOSE i \in colons : \A j \in colons : i <= j
               c2 == CHOOSE i \in colons : \A j \in colons : j <= i
               hh == SubSeq(text, 1, c1 - 1)
               mm == SubSeq(text, c1 + 1, c2 - 1)
               ss == SubSeq(text, c2 + 1, Len(text))
           IN  /\ IsNumeral(hh) /\ IsNumeral(mm) /\ IsNumeral(ss)
               /\ Len(hh) >= 2 /\ Len(mm) = 2 /\ Len(ss) = 2
               /\ Len(hh) > 2 => hh[1] # "0"
               /\ NumeralValue(hh) = s \div 3600
               /\ NumeralValue(mm) = (s % 3600) \div 60
               /\ NumeralValue(ss) = s % 60
               /\ NumeralValue(hh) * 3600 + NumeralValue(mm) * 60 + NumeralValue(ss) = s

AtLeastPower(n, j) == \E i \in (j + 1)..Len(n) : n[i] # 0

\* The unit of a size: one step up for each of 1024, 1024^2, 1024^3 and
\* 1024^4 that the size reaches, and none after that.
UnitNames == << <<"B">>, <<"K", "B">>, <<"M", "B">>, <<"G", "B">>, <<"T", "B">> >>
UnitOf(n) == UnitNames[1 + Cardinality({j \in 1..4 : AtLeastPower(n, j)})]

\* The size n is a whole number of its unit: which one, or -1.
WholeUnits(n) ==
    LET k == Cardinality({j \in 1..4 : AtLeastPower(n, j)})
    IN  IF \E i \in 1..k : n[i] # 0 THEN -1
        ELSE IF k < 4 THEN n[k + 1]
        ELSE n[5] + 1024 * n[6]

GamesOf(answer) ==
    IF answer.kind # "json" THEN <<>>
    ELSE IF "response" \notin DOMAIN answer.data THEN <<>>
    ELSE IF "games" \notin DOMAIN answer.data.response THEN <<>>
    ELSE answer.data.response.games

\* The names of the games of the answers from the k-th on.
NamesFrom(answers, k) ==
    UNION {Range(GamesOf(answers[m])) : m \in k..Len(answers)}

Pending ==
    IF prog = "comanga" /\ pc = "group"
    THEN Len(comanga.files) - comanga.i + 1
    ELSE IF prog = "length" /\ pc = "scan"
    THEN Len(length.video_files) - length.i + 1
    ELSE 0

FailsPreCheck(f) == fs.cond[f] \in {"vanished", "empty", "denied"}

\* The file fails the check made before a video is opened: it is gone, of no
\* bytes or of less than 100 KB.
FailsVideoPreCheck(f) == fs.cond[f] \in {"vanished", "empty", "small"}

ProgressAfter(progress, done, n) ==
    /\ progress.total = n
    /\ progress.current = done
    /\ progress.current <= progress.total
    /\ Len(progress.events) = done
    /\ \A j \in 1..done : progress.events[j] = <<j, n>>

RunOver(r) == call.runs[r].i > Len(call.runs[r].durations)

C25_TotalSameInAnyOrder ==
    (RunOver(1) /\ RunOver(2)) => call.runs[1].total_duration = call.runs[2].total_duration

C25_Witness ==
    /\ RunOver(1) /\ RunOver(2)
    /\ call.runs[1].durations = <<Tenth, Fifth, SevenTenths>>
    /\ call.runs[2].durations = <<SevenTenths, Fifth, Tenth>>
    /\ call.runs[1].total_duration # call.runs[2].total_duration

\* C26: in convert_doc_to_docx Word is tried first for a file exactly when a
\* Word application was bound, LibreOffice is tried exactly when Word was not
\* there or returned failure for the file (never after a success of Word),
\* the file is counted iff one of the two returned success, and after the
\* loop converted_count and the files logged as failed add up to the files
\* found.
TurnThrough(j) == j < call.i

Recorded(name) ==
    \E m \in 1..Len(steam.games_completion_times) : steam.games_completion_times[m][1] = name

LookupsOf(name) == Cardinality({k \in 1..Len(steam.searches) : steam.searches[k][1] = name})

EntriesOf(name) ==
    Cardinality({m \in 1..Len(steam.games_completion_times) :
                    steam.games_completion_times[m][1] = name})

====
